---- MODULE Spec2Model ----
(***************************************************************************)
(* The note-taking application's text extraction heuristics (weeks 2, 4,   *)
(* 5 and 8) and the week 4 notes / action-items API, as state machines.    *)
(*                                                                         *)
(* A text is a sequence of characters; a character is a one-character      *)
(* string.  A character outside ASCII is named by its code point, so the   *)
(* bullet glyph is "U+2022".                                               *)
(***************************************************************************)
EXTENDS Integers, Sequences, FiniteSets, TLC

(***************************************************************************)
(* Characters and the Python string operations the extractors call.        *)
(***************************************************************************)
UpperChars ==
    <<"A","B","C","D","E","F","G","H","I","J","K","L","M",
      "N","O","P","Q","R","S","T","U","V","W","X","Y","Z">>

LowerChars ==
    <<"a","b","c","d","e","f","g","h","i","j","k","l","m",
      "n","o","p","q","r","s","t","u","v","w","x","y","z">>

DigitChars == {"0","1","2","3","4","5","6","7","8","9"}

\* str.isspace / regex \s, restricted to the whitespace the inputs use
WhitespaceChars == {" ", "\t", "\n", "\r", "\f"}

\* the line boundaries of str.splitlines, restricted likewise
LineBreakChars == {"\n", "\r", "\f"}

UpperSet == {UpperChars[i] : i \in 1..Len(UpperChars)}

LowerSet == {LowerChars[i] : i \in 1..Len(LowerChars)}

\* str.isupper on one character
IsUpperChar(c) == c \in UpperSet

IsLowerChar(c) == c \in LowerSet

\* regex [a-zA-Z]
IsAlpha(c) == IsUpperChar(c) \/ IsLowerChar(c)

\* regex \d
IsDigit(c) == c \in DigitChars

\* the letters outside ASCII that occur in the inputs: a with circumflex
UnicodeLetters == {"U+00E2"}

\* regex \w (Unicode): letters, digits and the underscore
WordChars == UpperSet \cup LowerSet \cup UnicodeLetters \cup DigitChars \cup {"_"}

IsWordChar(c) == c \in WordChars

IsSpace(c) == c \in WhitespaceChars

LowerOf == [c \in UpperSet |-> LowerChars[CHOOSE i \in 1..Len(UpperChars) : UpperChars[i] = c]]

\* str.lower on one character
Lower(c) == IF c \in UpperSet THEN LowerOf[c] ELSE c

\* str.lower
LowerStr(s) == [i \in 1..Len(s) |-> Lower(s[i])]

Min(S) == CHOOSE x \in S : \A y \in S : x <= y

Max(S) == 0 - Min({0 - x : x \in S})

\* str.strip(chars): every leading and trailing character of the set goes
StripChars(s, chars) ==
    LET keep == {i \in 1..Len(s) : s[i] \notin chars}
    IN  IF keep = {} THEN <<>> ELSE SubSeq(s, Min(keep), Max(keep))

\* str.strip()
Strip(s) == StripChars(s, WhitespaceChars)

\* str.rstrip()
RStrip(s) ==
    LET keep == {i \in 1..Len(s) : ~IsSpace(s[i])}
    IN  IF keep = {} THEN <<>> ELSE SubSeq(s, 1, Max(keep))

\* str.startswith
StartsWith(s, p) == Len(s) >= Len(p) /\ SubSeq(s, 1, Len(p)) = p

\* str.endswith
EndsWith(s, p) == Len(s) >= Len(p) /\ SubSeq(s, Len(s) - Len(p) + 1, Len(s)) = p

\* p in s
Contains(s, p) == \E i \in 0..(Len(s) - Len(p)) : SubSeq(s, i + 1, i + Len(p)) = p

\* str.removeprefix
RemovePrefix(s, p) == IF StartsWith(s, p) THEN SubSeq(s, Len(p) + 1, Len(s)) ELSE s

\* the text from position i on
From(s, i) == SubSeq(s, i, Len(s))

\* a greedy run (regex [chars]* from position i): the first position at or
\* after i whose character is not in chars, Len(s) + 1 when there is none
SkipWhile(s, i, chars) ==
    LET stop == {j \in i..Len(s) : s[j] \notin chars}
    IN  IF stop = {} THEN Len(s) + 1 ELSE Min(stop)

\* a greedy run of characters outside chars (regex [^chars]* from position i)
SkipUntil(s, i, chars) ==
    LET stop == {j \in i..Len(s) : s[j] \in chars}
    IN  IF stop = {} THEN Len(s) + 1 ELSE Min(stop)

\* re.search(r"[a-zA-Z]", s)
HasAlpha(s) == \E i \in 1..Len(s) : IsAlpha(s[i])

\* str.splitlines: a boundary ends the current line, "\r\n" is one boundary,
\* and no empty line follows the last boundary
RECURSIVE SplitLinesFrom(_, _, _)
SplitLinesFrom(text, i, cur) ==
    IF i > Len(text)
    THEN IF cur = <<>> THEN <<>> ELSE <<cur>>
    ELSE IF text[i] \in LineBreakChars
    THEN LET j == IF text[i] = "\r" /\ i < Len(text) /\ text[i + 1] = "\n"
                  THEN i + 2 ELSE i + 1
         IN  <<cur>> \o SplitLinesFrom(text, j, <<>>)
    ELSE SplitLinesFrom(text, i + 1, Append(cur, text[i]))

SplitLines(text) == SplitLinesFrom(text, 1, <<>>)

\* str.split(): the maximal runs of non-whitespace characters
RECURSIVE SplitWordsFrom(_, _)
SplitWordsFrom(s, i) ==
    LET a == SkipWhile(s, i, WhitespaceChars)
        b == SkipUntil(s, a, WhitespaceChars)
    IN  IF a > Len(s) THEN <<>> ELSE <<SubSeq(s, a, b - 1)>> \o SplitWordsFrom(s, b)

SplitWords(s) == SplitWordsFrom(s, 1)

(***************************************************************************)
(* A Python call returns a value or raises.                                *)
(***************************************************************************)
Return(v) == [raised |-> FALSE, value |-> v]

Raise(v) == [raised |-> TRUE, value |-> v]

(***************************************************************************)
(* week2/app/services/extract.py: the bullet / keyword extractor with the  *)
(* sentence fallback.                                                      *)
(***************************************************************************)

\* the character class [-*...] of BULLET_PREFIX_PATTERN as the source file holds
\* it: '-', '*' and the three characters U+00E2, U+20AC, U+00A2 (the bullet
\* glyph U+2022 itself is not in the class)
BulletClassChars == {"-", "*", "U+00E2", "U+20AC", "U+00A2"}

IsBulletClassChar(c) == c \in BulletClassChars

\* BULLET_PREFIX_PATTERN.match(s): the length of the match of
\* ^\s*([-*...]|\d+\.)\s+ at the start of s, 0 when there is none
BULLET_PREFIX_PATTERN(s) ==
    LET a == SkipWhile(s, 1, WhitespaceChars)
        d == SkipWhile(s, a, DigitChars)
        b == IF a <= Len(s) /\ IsBulletClassChar(s[a]) THEN a + 1
             ELSE IF d > a /\ d <= Len(s) /\ s[d] = "." THEN d + 1
             ELSE 0
        e == IF b = 0 THEN 0 ELSE SkipWhile(s, b, WhitespaceChars)
    IN  IF b = 0 \/ e = b THEN 0 ELSE e - 1

KEYWORD_PREFIXES ==
    {
      <<"t","o","d","o",":">>, <<"a","c","t","i","o","n",":">>, <<"n","e","x","t",":">> }

CheckboxOpen == <<"[", " ", "]">>

CheckboxTodo == <<"[", "t", "o", "d", "o", "]">>

is_action_line(line) ==
    LET stripped == LowerStr(Strip(line))
    IN  IF stripped = <<>> THEN FALSE
        ELSE IF BULLET_PREFIX_PATTERN(stripped) > 0 THEN TRUE
        ELSE IF \E prefix \in KEYWORD_PREFIXES : StartsWith(stripped, prefix) THEN TRUE
        ELSE IF Contains(stripped, CheckboxOpen) \/ Contains(stripped, CheckboxTodo) THEN TRUE
        ELSE FALSE

\* lines 44-47: the bullet prefix and the checkbox tokens are removed
CleanActionLine(line) ==
    LET c0 == From(line, BULLET_PREFIX_PATTERN(line) + 1)
        c1 == Strip(c0)
        c2 == Strip(RemovePrefix(c1, CheckboxOpen))
        c3 == Strip(RemovePrefix(c2, CheckboxTodo))
    IN  c3

\* lines 39-48: the line pass
RECURSIVE LinePass(_, _)
LinePass(lines, i) ==
    IF i > Len(lines) THEN <<>>
    ELSE LET line == Strip(lines[i])
         IN  IF line = <<>> THEN LinePass(lines, i + 1)
             ELSE IF is_action_line(line)
             THEN <<CleanActionLine(line)>> \o LinePass(lines, i + 1)
             ELSE LinePass(lines, i + 1)

SentenceEndChars == {".", "!", "?"}

\* re.split(r"(?<=[.!?])\s+", s): a whitespace run that follows '.', '!' or
\* '?' separates two pieces
RECURSIVE SplitSentencesFrom(_, _, _)
SplitSentencesFrom(s, i, cur) ==
    IF i > Len(s) THEN <<cur>>
    ELSE IF IsSpace(s[i]) /\ i > 1 /\ s[i - 1] \in SentenceEndChars
    THEN <<cur>> \o SplitSentencesFrom(s, SkipWhile(s, i, WhitespaceChars), <<>>)
    ELSE SplitSentencesFrom(s, i + 1, Append(cur, s[i]))

SplitSentences(s) == SplitSentencesFrom(s, 1, <<>>)

\* regex [A-Za-z']
WordLetterChars == UpperSet \cup LowerSet \cup {"'"}

\* re.findall(r"[A-Za-z']+", s)
RECURSIVE FindWordsFrom(_, _)
FindWordsFrom(s, i) ==
    LET a == SkipUntil(s, i, WordLetterChars)
        b == SkipWhile(s, a, WordLetterChars)
    IN  IF a > Len(s) THEN <<>> ELSE <<SubSeq(s, a, b - 1)>> \o FindWordsFrom(s, b)

FindWords(s) == FindWordsFrom(s, 1)

imperative_starters ==
    {
      <<"a","d","d">>, <<"c","r","e","a","t","e">>, <<"i","m","p","l","e","m","e","n","t">>,
      <<"f","i","x">>, <<"u","p","d","a","t","e">>, <<"w","r","i","t","e">>,
      <<"c","h","e","c","k">>, <<"v","e","r","i","f","y">>, <<"r","e","f","a","c","t","o","r">>,
      <<"d","o","c","u","m","e","n","t">>, <<"d","e","s","i","g","n">>,
      <<"i","n","v","e","s","t","i","g","a","t","e">> }

\* list[0]: IndexError on the empty list
Index0(list) == IF list = <<>> THEN Raise(<<>>) ELSE Return(list[1])

\* _looks_imperative without its "if not words" guard (line 75)
looks_imperative_unguarded(sentence) ==
    LET words == FindWords(sentence)
        first == Index0(words)
    IN  IF first.raised THEN Raise(FALSE)
        ELSE Return(LowerStr(first.value) \in imperative_starters)

looks_imperative(sentence) ==
    LET words == FindWords(sentence)
        first == Index0(words)
    IN  IF words = <<>> THEN Return(FALSE)
        ELSE IF first.raised THEN Raise(FALSE)
        ELSE Return(LowerStr(first.value) \in imperative_starters)

\* lines 52-58: the sentences the fallback pass keeps
RECURSIVE FallbackPass(_, _)
FallbackPass(sentences, i) ==
    IF i > Len(sentences) THEN <<>>
    ELSE LET s == Strip(sentences[i])
         IN  IF s = <<>> THEN FallbackPass(sentences, i + 1)
             ELSE IF looks_imperative(s).value
             THEN <<s>> \o FallbackPass(sentences, i + 1)
             ELSE FallbackPass(sentences, i + 1)

\* whether the fallback pass raises: some sentence it examines does
FallbackRaises(sentences) ==
    \E i \in 1..Len(sentences) :
        /\ Strip(sentences[i]) # <<>>
        /\ looks_imperative(Strip(sentences[i])).raised

\* the deduplication loop comparing items as they are (no .lower())
RECURSIVE DedupExact(_, _, _)
DedupExact(items, i, seen) ==
    IF i > Len(items) THEN <<>>
    ELSE IF items[i] \in seen THEN DedupExact(items, i + 1, seen)
    ELSE <<items[i]>> \o DedupExact(items, i + 1, seen \cup {items[i]})

\* lines 61-68: deduplicate while preserving order
RECURSIVE Dedup(_, _, _)
Dedup(items, i, seen) ==
    IF i > Len(items) THEN <<>>
    ELSE LET lowered == LowerStr(items[i])
         IN  IF lowered \in seen THEN Dedup(items, i + 1, seen)
             ELSE <<items[i]>> \o Dedup(items, i + 1, seen \cup {lowered})

\* the two passes with the fallback run whatever the line pass found
Extracted2_fallback_always(t) ==
    LinePass(SplitLines(t), 1) \o FallbackPass(SplitSentences(Strip(t)), 1)

\* the items collected before deduplication (lines 36-58)
Extracted2(t) ==
    LET fromLines == LinePass(SplitLines(t), 1)
    IN  IF fromLines = <<>>
        THEN FallbackPass(SplitSentences(Strip(t)), 1)
        ELSE fromLines

\* extract_action_items of week 2
ExtractWeek2(t) ==
    IF LinePass(SplitLines(t), 1) = <<>> /\ FallbackRaises(SplitSentences(Strip(t)))
    THEN Raise(<<>>)
    ELSE Return(Dedup(Extracted2(t), 1, {}))

(***************************************************************************)
(* week4 and week5 services/extract.py: the simple extractor.              *)
(***************************************************************************)

TodoPrefix == <<"t", "o", "d", "o", ":">>

\* line.endswith("!") or line.lower().startswith("todo:")
IsSimpleAction(line) == EndsWith(line, <<"!">>) \/ StartsWith(LowerStr(line), TodoPrefix)

\* [line.strip("- ") for line in text.splitlines() if line.strip()]
RECURSIVE SimpleLines(_, _)
SimpleLines(lines, i) ==
    IF i > Len(lines) THEN <<>>
    ELSE IF Strip(lines[i]) = <<>> THEN SimpleLines(lines, i + 1)
    ELSE <<StripChars(lines[i], {"-", " "})>> \o SimpleLines(lines, i + 1)

\* extract_action_items of weeks 4 and 5
ExtractSimple(t) == Return(SelectSeq(SimpleLines(SplitLines(t), 1), IsSimpleAction))

(***************************************************************************)
(* week5 services/extract.py: extract_hashtags.                            *)
(***************************************************************************)

\* re.findall(r"#(\w+)", s): the word runs that directly follow a '#'
RECURSIVE FindHashtagsFrom(_, _)
FindHashtagsFrom(s, i) ==
    IF i > Len(s) THEN <<>>
    ELSE IF s[i] = "#" /\ i < Len(s) /\ IsWordChar(s[i + 1])
    THEN LET j == SkipWhile(s, i + 1, WordChars)
         IN  <<SubSeq(s, i + 1, j - 1)>> \o FindHashtagsFrom(s, j)
    ELSE FindHashtagsFrom(s, i + 1)

\* lines 18-25 with the membership test on the raw tag instead of its name
RECURSIVE UniqueNamesRaw(_, _, _)
UniqueNamesRaw(raw_tags, i, seen) ==
    IF i > Len(raw_tags) THEN <<>>
    ELSE LET name == LowerStr(raw_tags[i])
         IN  IF name # <<>> /\ raw_tags[i] \notin seen
             THEN <<name>> \o UniqueNamesRaw(raw_tags, i + 1, seen \cup {raw_tags[i]})
             ELSE UniqueNamesRaw(raw_tags, i + 1, seen)

\* lines 18-25: lower-case each tag and keep the first occurrence of each name
RECURSIVE UniqueNames(_, _, _)
UniqueNames(raw_tags, i, seen) ==
    IF i > Len(raw_tags) THEN <<>>
    ELSE LET name == LowerStr(raw_tags[i])
         IN  IF name # <<>> /\ name \notin seen
             THEN <<name>> \o UniqueNames(raw_tags, i + 1, seen \cup {name})
             ELSE UniqueNames(raw_tags, i + 1, seen)

extract_hashtags(t) == Return(UniqueNames(FindHashtagsFrom(t, 1), 1, {}))

(***************************************************************************)
(* week8/version1-fastapi/app/services/extract.py: the rich extractor.     *)
(***************************************************************************)

action_keywords ==
    {
      <<"t","o","d","o">>, <<"a","c","t","i","o","n">>, <<"f","i","x","m","e">>,
      <<"b","u","g">>, <<"h","a","c","k">>, <<"n","o","t","e">>,
      <<"r","e","m","i","n","d","e","r">>, <<"w","a","r","n","i","n","g">>,
      <<"i","m","p","o","r","t","a","n","t">>, <<"u","r","g","e","n","t">>,
      <<"c","r","i","t","i","c","a","l">> }

action_verb_patterns ==
    {
      <<"m","u","s","t">>, <<"s","h","o","u","l","d">>, <<"n","e","e","d"," ","t","o">>,
      <<"r","e","m","e","m","b","e","r"," ","t","o">>, <<"e","n","s","u","r","e">>,
      <<"m","a","k","e"," ","s","u","r","e">>, <<"c","o","n","s","i","d","e","r">>,
      <<"r","e","v","i","e","w">>, <<"i","m","p","l","e","m","e","n","t">>, <<"a","d","d">>,
      <<"r","e","m","o","v","e">>, <<"u","p","d","a","t","e">>, <<"f","i","x">>,
      <<"r","e","f","a","c","t","o","r">>, <<"t","e","s","t">>, <<"v","e","r","i","f","y">>,
      <<"c","h","e","c","k">>, <<"c","o","n","f","i","r","m">>,
      <<"c","o","m","p","l","e","t","e">>, <<"f","i","n","i","s","h">>, <<"s","t","a","r","t">>,
      <<"c","r","e","a","t","e">>, <<"d","e","l","e","t","e">>, <<"m","o","d","i","f","y">>,
      <<"i","m","p","r","o","v","e">>, <<"o","p","t","i","m","i","z","e">>,
      <<"d","o","c","u","m","e","n","t">>, <<"c","l","a","r","i","f","y">>,
      <<"r","e","s","o","l","v","e">>, <<"a","d","d","r","e","s","s">>,
      <<"h","a","n","d","l","e">>, <<"p","r","o","c","e","s","s">>,
      <<"v","a","l","i","d","a","t","e">>, <<"d","e","p","l","o","y">>,
      <<"r","o","l","l","b","a","c","k">>, <<"m","e","r","g","e">>, <<"s","p","l","i","t">>,
      <<"p","r","i","o","r","i","t","i","z","e">>, <<"s","c","h","e","d","u","l","e">>,
      <<"a","s","s","i","g","n">>, <<"n","o","t","i","f","y">>, <<"i","n","f","o","r","m">>,
      <<"c","o","n","t","a","c","t">>, <<"f","o","l","l","o","w"," ","u","p">>,
      <<"i","n","v","e","s","t","i","g","a","t","e">>, <<"a","n","a","l","y","z","e">>,
      <<"e","v","a","l","u","a","t","e">>, <<"a","s","s","e","s","s">>,
      <<"m","o","n","i","t","o","r">>, <<"t","r","a","c","k">>, <<"l","o","g">>,
      <<"d","e","b","u","g">>, <<"t","r","a","c","e">> }

imperative_verbs ==
    {
      <<"a","d","d">>, <<"u","p","d","a","t","e">>, <<"f","i","x">>,
      <<"r","e","m","o","v","e">>, <<"c","r","e","a","t","e">>, <<"d","e","l","e","t","e">>,
      <<"m","o","d","i","f","y">>, <<"i","m","p","l","e","m","e","n","t">>, <<"t","e","s","t">>,
      <<"v","e","r","i","f","y">>, <<"c","h","e","c","k">>, <<"r","e","v","i","e","w">>,
      <<"c","o","m","p","l","e","t","e">>, <<"f","i","n","i","s","h">>, <<"s","t","a","r","t">>,
      <<"e","n","s","u","r","e">>, <<"i","m","p","r","o","v","e">>,
      <<"r","e","f","a","c","t","o","r">>, <<"d","o","c","u","m","e","n","t">>,
      <<"c","l","a","r","i","f","y">>, <<"r","e","s","o","l","v","e">>,
      <<"h","a","n","d","l","e">>, <<"p","r","o","c","e","s","s">>,
      <<"v","a","l","i","d","a","t","e">>, <<"d","e","p","l","o","y">>, <<"m","e","r","g","e">>,
      <<"s","p","l","i","t">>, <<"p","r","i","o","r","i","t","i","z","e">>,
      <<"s","c","h","e","d","u","l","e">>, <<"a","s","s","i","g","n">>,
      <<"n","o","t","i","f","y">>, <<"i","n","v","e","s","t","i","g","a","t","e">>,
      <<"a","n","a","l","y","z","e">>, <<"m","o","n","i","t","o","r">>, <<"t","r","a","c","k">> }

\* re.sub(r"^\s*[-*...]\s+", "", s) (line 59)
StripBullet(s) ==
    LET a == SkipWhile(s, 1, WhitespaceChars)
        e == IF a <= Len(s) /\ IsBulletClassChar(s[a])
             THEN SkipWhile(s, a + 1, WhitespaceChars) ELSE 0
    IN  IF e > a + 1 THEN From(s, e) ELSE s

IsOrdinalMark(c) == c \in {".", ")"}

\* re.sub(r"^\s*\d+[\.\)]\s+", "", s) (line 60)
StripOrdinal(s) ==
    LET a == SkipWhile(s, 1, WhitespaceChars)
        d == SkipWhile(s, a, DigitChars)
        e == IF d > a /\ d <= Len(s) /\ IsOrdinalMark(s[d])
             THEN SkipWhile(s, d + 1, WhitespaceChars) ELSE 0
    IN  IF e > d + 1 THEN From(s, e) ELSE s

\* lines 59-60
Cleaned(line) == StripOrdinal(StripBullet(Strip(line)))

\* re.search(r"^(todo|...|critical)\s*:", cleaned, re.IGNORECASE)
MatchesKeyword(cleaned) ==
    \E k \in action_keywords :
        /\ StartsWith(LowerStr(cleaned), k)
        /\ LET j == SkipWhile(cleaned, Len(k) + 1, WhitespaceChars)
           IN  j <= Len(cleaned) /\ cleaned[j] = ":"

\* regex \b after a phrase that ends in a letter: no word character follows
WordEndsAt(s, j) == j > Len(s) \/ ~IsWordChar(s[j])

\* the search of the verb phrases without re.IGNORECASE
MatchesVerbPhrase_case_sensitive(cleaned) ==
    LET a == SkipWhile(cleaned, 1, WhitespaceChars)
        rest == From(cleaned, a)
    IN  \E p \in action_verb_patterns :
            StartsWith(rest, p) /\ WordEndsAt(rest, Len(p) + 1)

\* re.search(r"^\s*(?:must|...)\b", cleaned, re.IGNORECASE), any of the seven
MatchesVerbPhrase(cleaned) ==
    LET a == SkipWhile(cleaned, 1, WhitespaceChars)
        rest == LowerStr(From(cleaned, a))
    IN  \E p \in action_verb_patterns :
            StartsWith(rest, p) /\ WordEndsAt(rest, Len(p) + 1)

\* lines 101-103
IsExclamatory(cleaned) == EndsWith(RStrip(cleaned), <<"!">>) /\ HasAlpha(cleaned)

\* lines 110-116
IsCapitalizedImperative(cleaned) ==
    LET words == SplitWords(cleaned)
    IN  /\ words # <<>>
        /\ LowerStr(words[1]) \in imperative_verbs
        /\ IsUpperChar(cleaned[1])
        /\ Len(words) >= 2

\* the loop body without the question test of lines 70-71
LineStepKeepQuestions(acc, line) ==
    LET cleaned == Cleaned(line)
        normalized == Strip(LowerStr(cleaned))
        fresh == normalized \notin acc.seen_items
        emit == [results |-> Append(acc.results, cleaned),
                 seen_items |-> acc.seen_items \cup {normalized}]
    IN  IF Strip(line) = <<>> THEN acc
        ELSE IF cleaned = <<>> \/ Len(cleaned) < 3 THEN acc
        ELSE IF ~HasAlpha(cleaned) THEN acc
        ELSE IF MatchesKeyword(cleaned) /\ fresh THEN emit
        ELSE IF MatchesVerbPhrase(cleaned) /\ fresh THEN emit
        ELSE IF IsExclamatory(cleaned) /\ fresh THEN emit
        ELSE IF IsCapitalizedImperative(cleaned) /\ fresh THEN emit
        ELSE acc

\* lines 54-120: one turn of the loop over the lines; acc holds results and
\* seen_items.  A rule that matches a line already seen emits nothing and
\* the next rule is tried.
LineStep(acc, line) ==
    LET cleaned == Cleaned(line)
        normalized == Strip(LowerStr(cleaned))
        fresh == normalized \notin acc.seen_items
        emit == [results |-> Append(acc.results, cleaned),
                 seen_items |-> acc.seen_items \cup {normalized}]
    IN  IF Strip(line) = <<>> THEN acc
        ELSE IF cleaned = <<>> \/ Len(cleaned) < 3 THEN acc
        ELSE IF EndsWith(RStrip(cleaned), <<"?">>) THEN acc
        ELSE IF ~HasAlpha(cleaned) THEN acc
        ELSE IF MatchesKeyword(cleaned) /\ fresh THEN emit
        ELSE IF MatchesVerbPhrase(cleaned) /\ fresh THEN emit
        ELSE IF IsExclamatory(cleaned) /\ fresh THEN emit
        ELSE IF IsCapitalizedImperative(cleaned) /\ fresh THEN emit
        ELSE acc

RECURSIVE LineLoop(_, _, _)
LineLoop(lines, i, acc) ==
    IF i > Len(lines) THEN acc
    ELSE LineLoop(lines, i + 1, LineStep(acc, lines[i]))

\* extract_action_items of week 8
ExtractWeek8(t) ==
    IF t = <<>> \/ Strip(t) = <<>> THEN Return(<<>>)
    ELSE Return(LineLoop(SplitLines(t), 1, [results |-> <<>>, seen_items |-> {}]).results)

(***************************************************************************)
(* week4 backend: notes and action items over SQLite.  A table is a        *)
(* function from the ids of its rows to their columns, a session is the    *)
(* pair of tables as the request's transaction sees them.                  *)
(***************************************************************************)

MAX_TITLE_LENGTH == 200

HTTP_201_CREATED == 201

\* a JSON body field or query parameter: absent, null, or a value
Unset == [kind |-> "unset", value |-> <<>>]

Null == [kind |-> "null", value |-> <<>>]

Str(s) == [kind |-> "str", value |-> s]

UnsetBool == [kind |-> "unset", value |-> FALSE]

NullBool == [kind |-> "null", value |-> FALSE]

Bool(b) == [kind |-> "bool", value |-> b]

UnsetInt == [kind |-> "unset", value |-> 0]

Int_(n) == [kind |-> "int", value |-> n]

UnsetName == [kind |-> "unset", value |-> ""]

Name(s) == [kind |-> "str", value |-> s]

\* a required str field with the validators of NoteCreate.title
RequiredTitle(f) ==
    IF f.kind # "str" THEN Raise("ValidationError")
    ELSE IF f.value = <<>> \/ Strip(f.value) = <<>> THEN Raise("ValidationError")
    ELSE IF Len(f.value) > MAX_TITLE_LENGTH THEN Raise("ValidationError")
    ELSE Return(Strip(f.value))

\* a required str field with the validators of NoteCreate.content and
\* ActionItemCreate.description
RequiredText(f) ==
    IF f.kind # "str" THEN Raise("ValidationError")
    ELSE IF f.value = <<>> \/ Strip(f.value) = <<>> THEN Raise("ValidationError")
    ELSE Return(Strip(f.value))

\* an Optional[str] field with the validators of NoteUpdate.title: the
\* validator runs on a supplied value only, None passes through
OptionalTitle(f) ==
    IF f.kind # "str" THEN Return(f)
    ELSE IF Strip(f.value) = <<>> THEN Raise("ValidationError")
    ELSE IF Len(f.value) > MAX_TITLE_LENGTH THEN Raise("ValidationError")
    ELSE Return(Str(Strip(f.value)))

\* an Optional[str] field with the validators of NoteUpdate.content and
\* ActionItemUpdate.description
OptionalText(f) ==
    IF f.kind # "str" THEN Return(f)
    ELSE IF Strip(f.value) = <<>> THEN Raise("ValidationError")
    ELSE Return(Str(Strip(f.value)))

NoteCreate(title, content) ==
    LET t == RequiredTitle(title)
        c == RequiredText(content)
    IN  IF t.raised \/ c.raised THEN Raise("ValidationError")
        ELSE Return([title |-> t.value, content |-> c.value])

\* the validated model; model_dump(exclude_unset=True) is its fields whose
\* kind is not "unset"
NoteUpdate(title, content) ==
    LET t == OptionalTitle(title)
        c == OptionalText(content)
    IN  IF t.raised \/ c.raised THEN Raise("ValidationError")
        ELSE Return([title |-> t.value, content |-> c.value])

ActionItemCreate(description) ==
    LET d == RequiredText(description)
    IN  IF d.raised THEN Raise("ValidationError")
        ELSE Return([description |-> d.value])

ActionItemUpdate(description, completed) ==
    LET d == OptionalText(description)
    IN  IF d.raised THEN Raise("ValidationError")
        ELSE Return([description |-> d.value, completed |-> completed])

NoteRead(id, row) == [id |-> id, title |-> row.title, content |-> row.content]

ActionItemRead(id, row) ==
    [id |-> id, description |-> row.description, completed |-> row.completed]

\* Query(default, ge=..., le=...): the value of an integer query parameter
QueryValue(p, default) == IF p.kind = "unset" THEN default ELSE p.value

\* the skip and limit parameters of the list endpoints pass validation
PaginationValid(skip, limit) ==
    /\ QueryValue(skip, 0) >= 0
    /\ QueryValue(limit, 100) >= 1
    /\ QueryValue(limit, 100) <= 1000

\* id = Column(Integer, primary_key=True): SQLite gives a new row the id
\* after the largest one in the table
NextRowId(table) == IF DOMAIN table = {} THEN 1 ELSE Max(DOMAIN table) + 1

\* the ids of a set of rows in the order a table scan returns them
RECURSIVE ScanOrder(_)
ScanOrder(ids) ==
    IF ids = {} THEN <<>> ELSE <<Min(ids)>> \o ScanOrder(ids \ {Min(ids)})

\* .offset(skip).limit(limit)
OffsetLimit(rows, skip, limit) ==
    IF skip >= Len(rows) THEN <<>>
    ELSE SubSeq(rows, skip + 1, Min({Len(rows), skip + limit}))

\* BaseRepository.get_all: the ids of the selected rows
get_all(table, skip, limit) == OffsetLimit(ScanOrder(DOMAIN table), skip, limit)

\* BaseRepository.create: add, flush, refresh
create(table, columns) ==
    LET id == NextRowId(table)
    IN  [id |-> id, table |-> [k \in DOMAIN table \cup {id} |->
                                  IF k = id THEN columns ELSE table[k]]]

\* the flush of a row fails on a NULL in a nullable=False column
ViolatesNotNull(fields) == \E k \in DOMAIN fields : fields[k].kind = "null"

\* BaseRepository.update: setattr for every supplied field, add, flush
update(table, id, fields) ==
    IF ViolatesNotNull(fields) THEN Raise("IntegrityError")
    ELSE Return([table EXCEPT ![id] =
                    [k \in DOMAIN table[id] |->
                        IF k \in DOMAIN fields /\ fields[k].kind # "unset"
                        THEN fields[k].value ELSE table[id][k]]])

\* a delete that never reaches the table
delete_unflushed(table, id) == table

\* BaseRepository.delete: delete, flush
delete(table, id) == [k \in DOMAIN table \ {id} |-> table[k]]

\* NoteRepository.search: LIKE '%query%' on title or content
search(table, query, skip, limit) ==
    IF query.kind # "str" \/ query.value = <<>> THEN get_all(table, skip, limit)
    ELSE OffsetLimit(
            ScanOrder({id \in DOMAIN table :
                          \/ Contains(LowerStr(table[id].title), LowerStr(query.value))
                          \/ Contains(LowerStr(table[id].content), LowerStr(query.value))}),
            skip, limit)

\* ActionItemService.get_all_action_items: the status filter as a flag
StatusFlag(status) ==
    IF status.kind = "str" /\ status.value = "completed" THEN Bool(TRUE)
    ELSE IF status.kind = "str" /\ status.value = "pending" THEN Bool(FALSE)
    ELSE UnsetBool

\* a filter that is dropped when the flag is False ("if completed:")
filter_by_status_truthy(table, completed, skip, limit) ==
    OffsetLimit(
        ScanOrder({id \in DOMAIN table :
                      (completed.kind = "bool" /\ completed.value) => table[id].completed}),
        skip, limit)

\* ActionItemRepository.filter_by_status
filter_by_status(table, completed, skip, limit) ==
    OffsetLimit(
        ScanOrder({id \in DOMAIN table :
                      completed.kind = "bool" => table[id].completed = completed.value}),
        skip, limit)

\* get_or_404
get_or_404(table, id) ==
    IF id \in DOMAIN table THEN Return(id) ELSE Raise("ResourceNotFoundError")

\* what a handler leaves behind: the exception it raised ("" when it
\* returned), the response body, and the session after its flushes
Returned(body, session) == [exc |-> "", body |-> body, session |-> session]

Raised(exc, session) == [exc |-> exc, body |-> <<>>, session |-> session]

\* NoteService.get_all_notes
get_all_notes(s, skip, limit) ==
    LET ids == get_all(s.notes, skip, limit)
    IN  Returned([i \in 1..Len(ids) |-> NoteRead(ids[i], s.notes[ids[i]])], s)

\* NoteService.search_notes
NoteService_search_notes(s, query, skip, limit) ==
    LET ids == search(s.notes, query, skip, limit)
    IN  Returned([i \in 1..Len(ids) |-> NoteRead(ids[i], s.notes[ids[i]])], s)

\* NoteService.create_note
NoteService_create_note(s, payload) ==
    LET made == create(s.notes, [title |-> payload.title, content |-> payload.content])
    IN  Returned(<<NoteRead(made.id, made.table[made.id])>>,
                 [s EXCEPT !.notes = made.table])

\* NoteService.get_note_by_id
get_note_by_id(s, note_id) ==
    LET note == get_or_404(s.notes, note_id)
    IN  IF note.raised THEN Raised(note.value, s)
        ELSE Returned(<<NoteRead(note_id, s.notes[note_id])>>, s)

\* NoteService.update_note
NoteService_update_note(s, note_id, payload) ==
    LET note == get_or_404(s.notes, note_id)
        update_data == {k \in DOMAIN payload : payload[k].kind # "unset"}
        updated == update(s.notes, note_id, payload)
    IN  IF note.raised THEN Raised(note.value, s)
        ELSE IF update_data = {} THEN Returned(<<NoteRead(note_id, s.notes[note_id])>>, s)
        ELSE IF updated.raised THEN Raised(updated.value, s)
        ELSE Returned(<<NoteRead(note_id, updated.value[note_id])>>,
                      [s EXCEPT !.notes = updated.value])

\* NoteService.delete_note
NoteService_delete_note(s, note_id) ==
    LET note == get_or_404(s.notes, note_id)
    IN  IF note.raised THEN Raised(note.value, s)
        ELSE Returned(<<>>, [s EXCEPT !.notes = delete(s.notes, note_id)])

\* ActionItemService.get_all_action_items
get_all_action_items(s, status, skip, limit) ==
    LET ids == filter_by_status(s.items, StatusFlag(status), skip, limit)
    IN  Returned([i \in 1..Len(ids) |-> ActionItemRead(ids[i], s.items[ids[i]])], s)

\* ActionItemService.create_action_item
create_action_item(s, payload) ==
    LET made == create(s.items, [description |-> payload.description, completed |-> FALSE])
    IN  Returned(<<ActionItemRead(made.id, made.table[made.id])>>,
                 [s EXCEPT !.items = made.table])

\* ActionItemService.update_action_item
update_action_item(s, item_id, payload) ==
    LET item == get_or_404(s.items, item_id)
        update_data == {k \in DOMAIN payload : payload[k].kind # "unset"}
        updated == update(s.items, item_id, payload)
    IN  IF item.raised THEN Raised(item.value, s)
        ELSE IF update_data = {} THEN Returned(<<ActionItemRead(item_id, s.items[item_id])>>, s)
        ELSE IF updated.raised THEN Raised(updated.value, s)
        ELSE Returned(<<ActionItemRead(item_id, updated.value[item_id])>>,
                      [s EXCEPT !.items = updated.value])

\* ActionItemService.delete_action_item
delete_action_item(s, item_id) ==
    LET item == get_or_404(s.items, item_id)
    IN  IF item.raised THEN Raised(item.value, s)
        ELSE Returned(<<>>, [s EXCEPT !.items = delete(s.items, item_id)])

\* ActionItemService.complete_action_item
complete_action_item(s, item_id) ==
    LET item == get_or_404(s.items, item_id)
        updated == update(s.items, item_id, [completed |-> Bool(TRUE)])
    IN  IF item.raised THEN Raised(item.value, s)
        ELSE Returned(<<ActionItemRead(item_id, updated.value[item_id])>>,
                      [s EXCEPT !.items = updated.value])

\* an application without the ResourceNotFoundError handler
StatusOf_unhandled(exc, success) ==
    IF exc = "" THEN success
    ELSE IF exc = "RequestValidationError" THEN 422
    ELSE IF exc = "IntegrityError" THEN 400
    ELSE 500

\* the exception handlers of the application: exception to status code
StatusOf(exc, success) ==
    IF exc = "" THEN success
    ELSE IF exc = "ResourceNotFoundError" THEN 404
    ELSE IF exc = "RequestValidationError" THEN 422
    ELSE IF exc = "IntegrityError" THEN 400
    ELSE 500

(***************************************************************************)
(* week8 backend (version1-fastapi): categories and tags.  The database   *)
(* is a record of the two tables and of the clock that stamps created_at; *)
(* the handlers commit or roll back themselves.                            *)
(***************************************************************************)

HTTP_409_CONFLICT == 409

HTTP_204_NO_CONTENT == 204

\* the characters of the names in the order of their code points
AsciiOrder == <<"%">> \o UpperChars \o <<"_">> \o LowerChars

CodePoint(c) == CHOOSE i \in 1..Len(AsciiOrder) : AsciiOrder[i] = c

\* a < b for two strings under SQLite's BINARY collation
RECURSIVE StrLess(_, _)
StrLess(a, b) ==
    IF b = <<>> THEN FALSE
    ELSE IF a = <<>> THEN TRUE
    ELSE IF Head(a) # Head(b) THEN CodePoint(Head(a)) < CodePoint(Head(b))
    ELSE StrLess(Tail(a), Tail(b))

\* value LIKE pattern: % matches any run of characters, _ any one character
RECURSIVE Like(_, _)
Like(value, pattern) ==
    IF pattern = <<>> THEN value = <<>>
    ELSE IF Head(pattern) = "%"
         THEN Like(value, Tail(pattern)) \/ (value # <<>> /\ Like(Tail(value), pattern))
    ELSE /\ value # <<>>
         /\ Head(pattern) = "_" \/ Head(pattern) = Head(value)
         /\ Like(Tail(value), Tail(pattern))

\* Column.ilike(pattern): lower(column) LIKE lower(pattern)
ilike(value, pattern) == Like(LowerStr(value), LowerStr(pattern))

\* the sort query parameter: dashes leading '-' characters, then field
Sort(dashes, field) == [dashes |-> dashes, field |-> field]

\* sort.lstrip("-")
sort_field(sort) == sort.field

\* sort.startswith("-")
SortDescending(sort) == sort.dashes > 0

\* the mapped columns of the two models
CategoryColumns == {"id", "name", "description", "created_at"}

TagColumns == {"id", "name", "color", "created_at"}

\* attributes every declarative model class has besides its columns
ClassAttributes == {"metadata", "registry"}

\* hasattr(Model, sort_field)
hasattr(columns, field) == field \in columns \cup ClassAttributes

IntKey(n) == [null |-> FALSE, int |-> n, str |-> <<>>]

StrKey(s) == [null |-> FALSE, int |-> 0, str |-> s]

NullKey == [null |-> TRUE, int |-> 0, str |-> <<>>]

\* the value of a column of a row as a sort key: NULL, an integer (a
\* boolean is stored as 0 or 1) or a string
ColumnKey(table, id, field) ==
    IF field = "id" THEN IntKey(id)
    ELSE IF field \in {"created_at", "updated_at"} THEN IntKey(table[id][field])
    ELSE IF field \in {"name", "title", "content"} THEN StrKey(table[id][field])
    ELSE IF table[id][field].kind = "null" THEN NullKey
    ELSE IF table[id][field].kind = "int" THEN IntKey(table[id][field].value)
    ELSE IF table[id][field].kind = "bool"
         THEN IntKey(IF table[id][field].value THEN 1 ELSE 0)
    ELSE StrKey(table[id][field].value)

\* ORDER BY puts NULL first, then integers by value and strings by code
\* points
KeyLess(a, b) ==
    IF a.null \/ b.null THEN a.null /\ ~b.null
    ELSE IF a.int # b.int THEN a.int < b.int
    ELSE StrLess(a.str, b.str)

\* row a comes before row b under ORDER BY field ASC|DESC; rows with equal
\* keys stay in the order of the table scan
Precedes(table, a, b, field, descending) ==
    LET ka == ColumnKey(table, a, field)
        kb == ColumnKey(table, b, field)
    IN  IF KeyLess(ka, kb) THEN ~descending
        ELSE IF KeyLess(kb, ka) THEN descending
        ELSE a < b

\* the ids of a set of rows under ORDER BY field ASC|DESC
RECURSIVE OrderBy(_, _, _, _)
OrderBy(table, ids, field, descending) ==
    IF ids = {} THEN <<>>
    ELSE LET first == CHOOSE a \in ids :
                          \A b \in ids \ {a} : Precedes(table, a, b, field, descending)
         IN  <<first>> \o OrderBy(table, ids \ {first}, field, descending)

\* the outcome of a week8 handler: status code, response body, database
Result(status, body, db) == [status |-> status, body |-> body, db |-> db]

\* the ordering block of the list endpoints: the ordered ids, or the
\* exception of order_fn on an attribute that is no SQL expression
Ordered(table, ids, columns, sort) ==
    IF hasattr(columns, sort_field(sort))
    THEN IF sort_field(sort) \in columns
         THEN Return(OrderBy(table, ids, sort_field(sort), SortDescending(sort)))
         ELSE Raise("ArgumentError")
    ELSE Return(OrderBy(table, ids, "created_at", TRUE))

CategoryRead(id, row) ==
    [id |-> id, name |-> row.name, description |-> row.description,
     created_at |-> row.created_at]

TagRead(id, row) ==
    [id |-> id, name |-> row.name, color |-> row.color, created_at |-> row.created_at]

\* CategoryPatch / TagPatch: an absent field and a null one are both None
PatchField(f) == IF f.kind = "str" THEN f ELSE Null

\* GET /categories/
list_categories(db, skip, limit, sort) ==
    LET ordered == Ordered(db.categories, DOMAIN db.categories, CategoryColumns, sort)
        ids == OffsetLimit(ordered.value, skip, limit)
    IN  IF ordered.raised THEN Result(500, <<>>, db)
        ELSE Result(200, [i \in 1..Len(ids) |-> CategoryRead(ids[i], db.categories[ids[i]])], db)

\* POST /categories/
create_category(db, payload) ==
    LET existing_category ==
            \E id \in DOMAIN db.categories : ilike(db.categories[id].name, payload.name)
        made == create(db.categories,
                       [name |-> payload.name, description |-> payload.description,
                        created_at |-> db.clock])
    IN  IF existing_category THEN Result(HTTP_409_CONFLICT, <<>>, db)
        ELSE Result(HTTP_201_CREATED, <<CategoryRead(made.id, made.table[made.id])>>,
                    [db EXCEPT !.categories = made.table, !.clock = @ + 1])

\* GET /categories/{category_id}
get_category(db, category_id) ==
    IF category_id \notin DOMAIN db.categories THEN Result(404, <<>>, db)
    ELSE Result(200, <<CategoryRead(category_id, db.categories[category_id])>>, db)

\* a PATCH that writes both fields of the payload, supplied or not
patch_category_overwrite(db, category_id, payload) ==
    LET category == db.categories[category_id]
        replaced == [category EXCEPT
                        !.name = IF payload.name.kind # "null" THEN payload.name.value ELSE @,
                        !.description = payload.description]
    IN  IF category_id \notin DOMAIN db.categories THEN Result(404, <<>>, db)
        ELSE Result(200, <<CategoryRead(category_id, replaced)>>,
                    [db EXCEPT !.categories[category_id] = replaced])

\* PATCH /categories/{category_id}
patch_category(db, category_id, payload) ==
    LET existing_category ==
            \E id \in DOMAIN db.categories \ {category_id} :
                ilike(db.categories[id].name, payload.name.value)
        category == db.categories[category_id]
        named == IF payload.name.kind # "null"
                 THEN [category EXCEPT !.name = payload.name.value] ELSE category
        described == IF payload.description.kind # "null"
                     THEN [named EXCEPT !.description = payload.description] ELSE named
    IN  IF category_id \notin DOMAIN db.categories THEN Result(404, <<>>, db)
        ELSE IF payload.name.kind # "null" /\ existing_category
        THEN Result(HTTP_409_CONFLICT, <<>>, db)
        ELSE Result(200, <<CategoryRead(category_id, described)>>,
                    [db EXCEPT !.categories[category_id] = described])

\* PUT /categories/{category_id}
update_category(db, category_id, payload) ==
    LET existing_category ==
            \E id \in DOMAIN db.categories : ilike(db.categories[id].name, payload.name)
        category == db.categories[category_id]
        replaced == [category EXCEPT !.name = payload.name,
                                     !.description = payload.description]
    IN  IF category_id \notin DOMAIN db.categories THEN Result(404, <<>>, db)
        ELSE IF LowerStr(payload.name) # LowerStr(category.name) /\ existing_category
        THEN Result(HTTP_409_CONFLICT, <<>>, db)
        ELSE Result(200, <<CategoryRead(category_id, replaced)>>,
                    [db EXCEPT !.categories[category_id] = replaced])

\* DELETE /categories/{category_id}
delete_category(db, category_id) ==
    IF category_id \notin DOMAIN db.categories THEN Result(404, <<>>, db)
    ELSE Result(HTTP_204_NO_CONTENT, <<>>,
                [db EXCEPT !.categories = delete(db.categories, category_id)])

\* GET /tags/
list_tags(db, skip, limit, sort) ==
    LET ordered == Ordered(db.tags, DOMAIN db.tags, TagColumns, sort)
        ids == OffsetLimit(ordered.value, skip, limit)
    IN  IF ordered.raised THEN Result(500, <<>>, db)
        ELSE Result(200, [i \in 1..Len(ids) |-> TagRead(ids[i], db.tags[ids[i]])], db)

\* POST /tags/
create_tag(db, payload) ==
    LET existing_tag == \E id \in DOMAIN db.tags : ilike(db.tags[id].name, payload.name)
        made == create(db.tags, [name |-> payload.name, color |-> payload.color,
                                 created_at |-> db.clock])
    IN  IF existing_tag THEN Result(HTTP_409_CONFLICT, <<>>, db)
        ELSE Result(HTTP_201_CREATED, <<TagRead(made.id, made.table[made.id])>>,
                    [db EXCEPT !.tags = made.table, !.clock = @ + 1])

\* GET /tags/{tag_id}
get_tag(db, tag_id) ==
    IF tag_id \notin DOMAIN db.tags THEN Result(404, <<>>, db)
    ELSE Result(200, <<TagRead(tag_id, db.tags[tag_id])>>, db)

\* PATCH /tags/{tag_id}
patch_tag(db, tag_id, payload) ==
    LET existing_tag ==
            \E id \in DOMAIN db.tags \ {tag_id} : ilike(db.tags[id].name, payload.name.value)
        tag == db.tags[tag_id]
        named == IF payload.name.kind # "null"
                 THEN [tag EXCEPT !.name = payload.name.value] ELSE tag
        colored == IF payload.color.kind # "null"
                   THEN [named EXCEPT !.color = payload.color] ELSE named
    IN  IF tag_id \notin DOMAIN db.tags THEN Result(404, <<>>, db)
        ELSE IF payload.name.kind # "null" /\ existing_tag
        THEN Result(HTTP_409_CONFLICT, <<>>, db)
        ELSE Result(200, <<TagRead(tag_id, colored)>>, [db EXCEPT !.tags[tag_id] = colored])

\* PUT /tags/{tag_id}
update_tag(db, tag_id, payload) ==
    LET existing_tag == \E id \in DOMAIN db.tags : ilike(db.tags[id].name, payload.name)
        tag == db.tags[tag_id]
        replaced == [tag EXCEPT !.name = payload.name, !.color = payload.color]
    IN  IF tag_id \notin DOMAIN db.tags THEN Result(404, <<>>, db)
        ELSE IF LowerStr(payload.name) # LowerStr(tag.name) /\ existing_tag
        THEN Result(HTTP_409_CONFLICT, <<>>, db)
        ELSE Result(200, <<TagRead(tag_id, replaced)>>, [db EXCEPT !.tags[tag_id] = replaced])

\* DELETE /tags/{tag_id}
delete_tag(db, tag_id) ==
    IF tag_id \notin DOMAIN db.tags THEN Result(404, <<>>, db)
    ELSE Result(HTTP_204_NO_CONTENT, <<>>, [db EXCEPT !.tags = delete(db.tags, tag_id)])

\* the database after create_all: both tables empty
NewDb8 == [categories |-> <<>>, tags |-> <<>>, clock |-> 1]

(***************************************************************************)
(* week7 backend: notes and action items with categories and tags.  The   *)
(* database is a record of the tables and of the clock behind utcnow.      *)
(***************************************************************************)

NullInt == [kind |-> "null", value |-> 0]

\* main.py: the routers the application includes
IncludedRouters7 == {"notes", "action_items"}

NoteColumns7 == {"id", "title", "content", "category_id", "created_at", "updated_at"}

ActionItemColumns7 == {"id", "description", "completed", "note_id", "created_at", "updated_at"}

NoteRead7(id, row) ==
    [id |-> id, title |-> row.title, content |-> row.content,
     category_id |-> row.category_id, created_at |-> row.created_at,
     updated_at |-> row.updated_at]

ActionItemRead7(id, row) ==
    [id |-> id, description |-> row.description, completed |-> row.completed,
     note_id |-> row.note_id, created_at |-> row.created_at, updated_at |-> row.updated_at]

\* Column.contains(q): column LIKE '%' || q || '%', which SQLite matches
\* without regard to ASCII case
contains(value, q) == Like(LowerStr(value), <<"%">> \o LowerStr(q) \o <<"%">>)

\* the rows list_notes selects before ordering
NotesMatching7(notes, q) ==
    IF q.kind # "str" \/ q.value = <<>> THEN DOMAIN notes
    ELSE {id \in DOMAIN notes : contains(notes[id].title, q.value)
                                \/ contains(notes[id].content, q.value)}

\* GET /notes/: the handler has no category_id parameter, a category_id in
\* the query string is not read
list_notes7(db, q, skip, limit, sort) ==
    LET ordered == Ordered(db.notes, NotesMatching7(db.notes, q), NoteColumns7, sort)
        ids == OffsetLimit(ordered.value, skip, limit)
    IN  IF ordered.raised THEN Result(500, <<>>, db)
        ELSE Result(200, [i \in 1..Len(ids) |-> NoteRead7(ids[i], db.notes[ids[i]])], db)

\* POST /notes/: Note(title=payload.title, content=payload.content)
create_note7(db, payload) ==
    LET made == create(db.notes, [title |-> payload.title, content |-> payload.content,
                                  category_id |-> NullInt,
                                  created_at |-> db.clock, updated_at |-> db.clock])
    IN  Result(HTTP_201_CREATED, <<NoteRead7(made.id, made.table[made.id])>>,
               [db EXCEPT !.notes = made.table, !.clock = @ + 1])

\* PATCH /notes/{note_id}; onupdate stamps updated_at when a column changed
patch_note7(db, note_id, payload) ==
    LET note == db.notes[note_id]
        titled == IF payload.title.kind # "null"
                  THEN [note EXCEPT !.title = payload.title.value] ELSE note
        patched == IF payload.content.kind # "null"
                   THEN [titled EXCEPT !.content = payload.content.value] ELSE titled
        stamped == IF patched # note THEN [patched EXCEPT !.updated_at = db.clock] ELSE note
    IN  IF note_id \notin DOMAIN db.notes THEN Result(404, <<>>, db)
        ELSE Result(200, <<NoteRead7(note_id, stamped)>>,
                    [db EXCEPT !.notes[note_id] = stamped,
                               !.clock = IF patched # note THEN @ + 1 ELSE @])

\* DELETE /notes/{note_id}; cascade="all, delete-orphan" deletes the action
\* items of the note with it
delete_note7(db, note_id) ==
    IF note_id \notin DOMAIN db.notes THEN Result(404, <<>>, db)
    ELSE Result(HTTP_204_NO_CONTENT, <<>>,
                [db EXCEPT !.notes = delete(db.notes, note_id),
                           !.action_items =
                               [k \in {i \in DOMAIN db.action_items :
                                          db.action_items[i].note_id # Int_(note_id)}
                                   |-> db.action_items[k]]])

\* the rows list_items selects before ordering
ItemsMatching7(items, completed, note_id) ==
    {id \in DOMAIN items :
        /\ completed.kind = "bool" => items[id].completed = completed
        /\ note_id.kind = "int" => items[id].note_id = note_id}

\* GET /action-items/
list_items7(db, completed, note_id, skip, limit, sort) ==
    LET ordered == Ordered(db.action_items, ItemsMatching7(db.action_items, completed, note_id),
                           ActionItemColumns7, sort)
        ids == OffsetLimit(ordered.value, skip, limit)
    IN  IF ordered.raised THEN Result(500, <<>>, db)
        ELSE Result(200, [i \in 1..Len(ids) |->
                             ActionItemRead7(ids[i], db.action_items[ids[i]])], db)

\* POST /action-items/
create_item7(db, payload) ==
    LET made == create(db.action_items,
                       [description |-> Str(payload.description), completed |-> Bool(FALSE),
                        note_id |-> payload.note_id,
                        created_at |-> db.clock, updated_at |-> db.clock])
    IN  IF payload.note_id.kind = "int" /\ payload.note_id.value \notin DOMAIN db.notes
        THEN Result(404, <<>>, db)
        ELSE Result(HTTP_201_CREATED, <<ActionItemRead7(made.id, made.table[made.id])>>,
                    [db EXCEPT !.action_items = made.table, !.clock = @ + 1])

\* PUT /action-items/{item_id}/complete
complete_item7(db, item_id) ==
    LET item == db.action_items[item_id]
        done == IF item.completed.value THEN item
                ELSE [item EXCEPT !.completed = Bool(TRUE), !.updated_at = db.clock]
    IN  IF item_id \notin DOMAIN db.action_items THEN Result(404, <<>>, db)
        ELSE Result(200, <<ActionItemRead7(item_id, done)>>,
                    [db EXCEPT !.action_items[item_id] = done,
                               !.clock = IF done # item THEN @ + 1 ELSE @])

\* the database after create_all: every table empty
NewDb7 == [notes |-> <<>>, action_items |-> <<>>, categories |-> <<>>, tags |-> <<>>,
           clock |-> 1]

\* NoteCreate of week7: the title and content validators, category_id as sent
NoteCreate7(title, content, category_id) ==
    LET t == RequiredTitle(title)
        c == RequiredText(content)
    IN  IF t.raised \/ c.raised THEN Raise("ValidationError")
        ELSE Return([title |-> t.value, content |-> c.value, category_id |-> category_id])

\* NotePatch of week7: an absent field and a null one are both None
NotePatch7(title, content) ==
    LET t == OptionalTitle(title)
        c == OptionalText(content)
    IN  IF t.raised \/ c.raised THEN Raise("ValidationError")
        ELSE Return([title |-> PatchField(t.value), content |-> PatchField(c.value)])

\* ActionItemCreate of week7
ActionItemCreate7(description, note_id) ==
    LET d == RequiredText(description)
    IN  IF d.raised THEN Raise("ValidationError")
        ELSE Return([description |-> d.value, note_id |-> note_id])

\* the application answers a path of a router it does not include with 404
Dispatch7(router, valid, result, db) ==
    IF router \notin IncludedRouters7 THEN Result(404, <<>>, db)
    ELSE IF ~valid THEN Result(422, <<>>, db)
    ELSE result

(***************************************************************************)
(* week5 backend: notes, tags and the tags attached to each note.  A note  *)
(* row carries its tags collection, one tag id for every row of the        *)
(* association table, in the order of the tag ids as a refresh loads them. *)
(***************************************************************************)

TagRead5(id, row) == [id |-> id, name |-> row.name]

NoteRead5(db, id) ==
    [id |-> id, title |-> db.notes[id].title, content |-> db.notes[id].content,
     tags |-> [i \in 1..Len(db.notes[id].tags) |->
                  TagRead5(db.notes[id].tags[i], db.tags[db.notes[id].tags[i]])]]

\* GET /tags/: ordered by name
list_tags5(db) ==
    LET ids == OrderBy(db.tags, DOMAIN db.tags, "name", FALSE)
    IN  Result(200, [i \in 1..Len(ids) |-> TagRead5(ids[i], db.tags[ids[i]])], db)

\* a create_tag without the lookup of an existing tag of that name
create_tag5_unchecked(db, payload) ==
    LET name == Strip(payload.name)
        made == create(db.tags, [name |-> name])
    IN  IF name = <<>> THEN Result(400, <<>>, db)
        ELSE Result(HTTP_201_CREATED, <<TagRead5(made.id, made.table[made.id])>>,
                    [db EXCEPT !.tags = made.table])

\* POST /tags/
create_tag5(db, payload) ==
    LET name == Strip(payload.name)
        existing == \E id \in DOMAIN db.tags : db.tags[id].name = name
        made == create(db.tags, [name |-> name])
    IN  IF name = <<>> THEN Result(400, <<>>, db)
        ELSE IF existing THEN Result(400, <<>>, db)
        ELSE Result(HTTP_201_CREATED, <<TagRead5(made.id, made.table[made.id])>>,
                    [db EXCEPT !.tags = made.table])

\* note.tags.append(tag), flush, refresh: one more row for the pair
RECURSIVE Attach(_, _)
Attach(list, x) ==
    IF list = <<>> THEN <<x>>
    ELSE IF x < Head(list) THEN <<x>> \o list
    ELSE <<Head(list)>> \o Attach(Tail(list), x)

\* list.remove(x): the list without the first x
RECURSIVE Remove(_, _)
Remove(list, x) ==
    IF list = <<>> THEN <<>>
    ELSE IF Head(list) = x THEN Tail(list)
    ELSE <<Head(list)>> \o Remove(Tail(list), x)

\* the rows of the association table of a deleted tag go with it
WithoutTag(notes, tag_id) ==
    [id \in DOMAIN notes |->
        [notes[id] EXCEPT !.tags = SelectSeq(@, LAMBDA t : t # tag_id)]]

\* DELETE /tags/{tag_id}
delete_tag5(db, tag_id) ==
    IF tag_id \notin DOMAIN db.tags THEN Result(404, <<>>, db)
    ELSE Result(HTTP_204_NO_CONTENT, <<>>,
                [db EXCEPT !.tags = delete(db.tags, tag_id),
                           !.notes = WithoutTag(db.notes, tag_id)])

\* POST /notes/
create_note5(db, payload) ==
    LET made == create(db.notes, [title |-> payload.title, content |-> payload.content,
                                  tags |-> <<>>])
        after == [db EXCEPT !.notes = made.table]
    IN  Result(HTTP_201_CREATED, <<NoteRead5(after, made.id)>>, after)

\* "tag in note.tags"
Attached(db, note_id, tag_id) ==
    \E i \in 1..Len(db.notes[note_id].tags) : db.notes[note_id].tags[i] = tag_id

\* an attach without the test for a tag that is attached already
attach_tag_to_note_unchecked(db, note_id, tag_id) ==
    LET after == [db EXCEPT !.notes[note_id].tags = Attach(@, tag_id)]
    IN  IF note_id \notin DOMAIN db.notes THEN Result(404, <<>>, db)
        ELSE IF tag_id \notin DOMAIN db.tags THEN Result(404, <<>>, db)
        ELSE Result(200, <<NoteRead5(after, note_id)>>, after)

\* POST /notes/{note_id}/tags
attach_tag_to_note(db, note_id, tag_id) ==
    LET after == [db EXCEPT !.notes[note_id].tags = Attach(@, tag_id)]
    IN  IF note_id \notin DOMAIN db.notes THEN Result(404, <<>>, db)
        ELSE IF tag_id \notin DOMAIN db.tags THEN Result(404, <<>>, db)
        ELSE IF Attached(db, note_id, tag_id) THEN Result(400, <<>>, db)
        ELSE Result(200, <<NoteRead5(after, note_id)>>, after)

\* DELETE /notes/{note_id}/tags/{tag_id}
detach_tag_from_note(db, note_id, tag_id) ==
    LET after == [db EXCEPT !.notes[note_id].tags = Remove(@, tag_id)]
    IN  IF note_id \notin DOMAIN db.notes THEN Result(404, <<>>, db)
        ELSE IF tag_id \notin DOMAIN db.tags THEN Result(404, <<>>, db)
        ELSE IF ~Attached(db, note_id, tag_id) THEN Result(400, <<>>, db)
        ELSE Result(200, <<NoteRead5(after, note_id)>>, after)

\* the notes search_notes selects: q on title or content, tag_id on the tags
SearchMatching(db, q, tag_id) ==
    LET q_stripped == IF q.kind = "str" THEN Strip(q.value) ELSE <<>>
        pattern == <<"%">> \o q_stripped \o <<"%">>
    IN  {id \in DOMAIN db.notes :
            /\ q_stripped # <<>> =>
                  ilike(db.notes[id].title, pattern) \/ ilike(db.notes[id].content, pattern)
            /\ tag_id.kind = "int" => Attached(db, id, tag_id.value)}

\* a search that counts the rows of the page instead of the rows selected
search_notes5_page_total(db, q, tag_id, page, page_size, sort) ==
    LET selected == SearchMatching(db, q, tag_id)
        ordered == IF sort = "title_asc" THEN OrderBy(db.notes, selected, "title", FALSE)
                   ELSE OrderBy(db.notes, selected, "id", TRUE)
        ids == OffsetLimit(ordered, (page - 1) * page_size, page_size)
    IN  IF tag_id.kind = "int" /\ tag_id.value \notin DOMAIN db.tags THEN Result(404, <<>>, db)
        ELSE Result(200, [items |-> [i \in 1..Len(ids) |-> NoteRead5(db, ids[i])],
                          total |-> Len(ids), page |-> page, page_size |-> page_size], db)

\* GET /notes/search
search_notes5(db, q, tag_id, page, page_size, sort) ==
    LET selected == SearchMatching(db, q, tag_id)
        ordered == IF sort = "title_asc" THEN OrderBy(db.notes, selected, "title", FALSE)
                   ELSE OrderBy(db.notes, selected, "id", TRUE)
        ids == OffsetLimit(ordered, (page - 1) * page_size, page_size)
    IN  IF tag_id.kind = "int" /\ tag_id.value \notin DOMAIN db.tags THEN Result(404, <<>>, db)
        ELSE Result(200, [items |-> [i \in 1..Len(ids) |-> NoteRead5(db, ids[i])],
                          total |-> Cardinality(selected), page |-> page,
                          page_size |-> page_size], db)

\* the database after create_all: both tables empty
NewDb5 == [notes |-> <<>>, tags |-> <<>>]

(***************************************************************************)
(* week3: the daily issue tools over the GitHub Issues REST API.  The      *)
(* repository is the list of its issues, oldest first; the number of an    *)
(* issue is its place in the list.                                         *)
(***************************************************************************)

\* params = {"state": "all", "per_page": 100}
PER_PAGE == 100

\* the title get_today_title returns on the day of the calls
get_today_title == "today"

\* GET /repos/{owner}/{repo}/issues?state=all&per_page=n: the first page,
\* the n issues created last, the newest first
ListIssues(issues, per_page) ==
    [i \in 1..Min({Len(issues), per_page}) |->
        [number |-> Len(issues) + 1 - i, title |-> issues[Len(issues) + 1 - i].title]]

\* "for issue in issues: if issue.get("title") == title: return issue",
\* 0 for None
RECURSIVE FirstWithTitle(_, _)
FirstWithTitle(page, title) ==
    IF page = <<>> THEN 0
    ELSE IF Head(page).title = title THEN Head(page).number
    ELSE FirstWithTitle(Tail(page), title)

\* a search that reads every issue of the repository, not the first page
find_issue_by_title_all_pages(issues, title) ==
    FirstWithTitle(ListIssues(issues, Len(issues)), title)

\* find_issue_by_title: the number of the issue found, 0 for None
find_issue_by_title(issues, title) ==
    FirstWithTitle(ListIssues(issues, PER_PAGE), title)

\* create_issue: POST /repos/{owner}/{repo}/issues with the default labels
create_issue(issues, title) ==
    Append(issues, [title |-> title, labels |-> <<"daily">>])

\* callers of the tools
Callers == {1, 2}

\* a repository without issues
NewRepository == [issues |-> <<>>, comments |-> {}]

\* a tool that has not been called
NoCall == [pc |-> "idle", tool |-> "none", issue |-> 0, sent |-> 0]

(***************************************************************************)
(* week2: notes and action items over sqlite3, one connection and one      *)
(* commit per repository call.                                             *)
(***************************************************************************)

\* init_tables on a new database file
NewDb2 == [notes |-> <<>>, action_items |-> <<>>]

\* what a repository call leaves behind: the exception it raised ("" when
\* it returned), its return value and the database
Done2(value, db) == [exc |-> "", value |-> value, db |-> db]

Failed2(exc, db) == [exc |-> exc, value |-> <<>>, db |-> db]

\* NoteRepository.create; a sqlite3.Error leaves the database as it was
NoteRepository_create(db, content, sqlite_ok) ==
    LET made == create(db.notes, [content |-> content])
    IN  IF ~sqlite_ok THEN Failed2("RuntimeError", db)
        ELSE Done2(made.id, [db EXCEPT !.notes = made.table])

\* the rows "INSERT INTO action_items (note_id, text)" adds for a list of
\* texts, one after the other; done takes its default 0
RECURSIVE InsertItems(_, _, _)
InsertItems(table, texts, note_id) ==
    IF texts = <<>> THEN table
    ELSE InsertItems(create(table, [note_id |-> note_id, text |-> Head(texts),
                                    done |-> FALSE]).table,
                     Tail(texts), note_id)

\* ActionItemRepository.create_many: the ids are the lastrowid of each
\* insert; a sqlite3.Error comes before the commit, and the connection is
\* closed with the inserts undone
create_many(db, texts, note_id, sqlite_ok) ==
    LET first == NextRowId(db.action_items)
    IN  IF ~sqlite_ok THEN Failed2("RuntimeError", db)
        ELSE Done2([i \in 1..Len(texts) |-> first + i - 1],
                   [db EXCEPT !.action_items = InsertItems(@, texts, note_id)])

\* ActionItemRepository.mark_done: UPDATE ... WHERE id = ?, of no row when
\* no row has the id
ActionItemRepository_mark_done(db, action_item_id, done, sqlite_ok) ==
    IF ~sqlite_ok THEN Failed2("RuntimeError", db)
    ELSE Done2(<<>>, [db EXCEPT !.action_items =
                        [id \in DOMAIN @ |->
                            IF id = action_item_id THEN [@[id] EXCEPT !.done = done]
                            ELSE @[id]]])

\* what the model answers: a list of actions, text that is no JSON, or
\* anything else that makes chat or LLMActionItemList raise
LlmItems(texts) == [kind |-> "items", items |-> texts]

LlmNotJson == [kind |-> "not_json", items |-> <<>>]

LlmFailure == [kind |-> "failure", items |-> <<>>]

\* extract_action_items_llm
extract_action_items_llm(answer) ==
    IF answer.kind = "not_json" THEN Raise("ValueError")
    ELSE IF answer.kind = "failure" THEN Raise("RuntimeError")
    ELSE Return(answer.items)

\* POST /action-items/{action_item_id}/done
mark_done2(db, action_item_id, done, sqlite_ok) ==
    LET marked == ActionItemRepository_mark_done(db, action_item_id, done, sqlite_ok)
    IN  IF marked.exc = "RuntimeError" THEN Result(500, <<>>, db)
        ELSE Result(200, [id |-> action_item_id, done |-> done], marked.db)

\* POST /action-items/extract-llm
extract_llm(db, text_, save_note, answer, note_ok, items_ok) ==
    LET note == IF save_note THEN NoteRepository_create(db, text_, note_ok)
                ELSE Done2(0, db)
        note_id == IF save_note THEN Int_(note.value) ELSE NullInt
        extracted == extract_action_items_llm(answer)
        stored == create_many(note.db, extracted.value, note_id, items_ok)
    IN  IF note.exc = "RuntimeError" THEN Result(500, <<>>, note.db)
        ELSE IF extracted.raised /\ extracted.value = "ValueError"
             THEN Result(422, <<>>, note.db)
        ELSE IF extracted.raised THEN Result(500, <<>>, note.db)
        ELSE IF stored.exc = "RuntimeError" THEN Result(500, <<>>, stored.db)
        ELSE Result(200,
                    [note_id |-> note_id,
                     items |-> [i \in 1..Len(stored.value) |->
                                   [id |-> stored.value[i], text |-> extracted.value[i]]]],
                    stored.db)

(***************************************************************************)
(* week4/backend/app/db.py: the session get_db hands to a route handler    *)
(* and get_session to a with block.  The database is the set of rows that  *)
(* are committed; a session sees its own uncommitted writes.               *)
(***************************************************************************)

\* the classes the except clauses name, most specific first
SqlExceptions == {"IntegrityError", "OperationalError", "DatabaseError", "SQLAlchemyError"}

Exceptions4 == SqlExceptions \cup {"Exception"}

\* no request served and no block run yet
NoSession ==
    [pc |-> "none", via |-> "none", store |-> {}, view |-> {}, commits |-> 0,
     rollbacks |-> 0, closes |-> 0, wrote |-> FALSE, block_exc |-> "", exc |-> ""]

\* SessionLocal(): a session on the database, nothing written yet
SessionLocal(store, via) ==
    [pc |-> "open", via |-> via, store |-> store, view |-> store, commits |-> 0,
     rollbacks |-> 0, closes |-> 0, wrote |-> FALSE, block_exc |-> "", exc |-> ""]

\* session.commit(): the writes of the session reach the database
session_commit(s) == [s EXCEPT !.store = s.view, !.commits = @ + 1]

\* session.rollback(): the writes of the session are dropped
session_rollback(s) == [s EXCEPT !.view = s.store, !.rollbacks = @ + 1]

\* session.close(): the connection goes back, an open transaction is dropped
session_close(s) == [s EXCEPT !.view = s.store, !.closes = @ + 1, !.pc = "closed"]

\* get_db from the yield on, as FastAPI resumes it: block_exc is what the
\* handler raised ("" when it returned) and commit_exc what session.commit()
\* raises ("" when it succeeds); the commit is not reached when the handler
\* raised.  Every except clause rolls back and raises again.
get_db_commit_always(s, block_exc, commit_exc) ==
    LET tried == IF commit_exc # "" THEN [s EXCEPT !.exc = commit_exc]
                 ELSE [session_commit(s) EXCEPT !.exc = block_exc]
        handled == IF tried.exc \in Exceptions4 THEN session_rollback(tried) ELSE tried
    IN  session_close([handled EXCEPT !.block_exc = block_exc])

get_db(s, block_exc, commit_exc) ==
    LET tried == IF block_exc # "" THEN [s EXCEPT !.exc = block_exc]
                 ELSE IF commit_exc # "" THEN [s EXCEPT !.exc = commit_exc]
                 ELSE session_commit(s)
        handled == IF tried.exc \in Exceptions4 THEN session_rollback(tried) ELSE tried
    IN  session_close([handled EXCEPT !.block_exc = block_exc])

\* get_session: the same body under @contextmanager
get_session(s, block_exc, commit_exc) ==
    LET tried == IF block_exc # "" THEN [s EXCEPT !.exc = block_exc]
                 ELSE IF commit_exc # "" THEN [s EXCEPT !.exc = commit_exc]
                 ELSE session_commit(s)
        handled == IF tried.exc \in Exceptions4 THEN session_rollback(tried) ELSE tried
    IN  session_close([handled EXCEPT !.block_exc = block_exc])

(***************************************************************************)
(* week8/version1-fastapi/app/routers/notes.py: the tags of a note.  A     *)
(* request carries its tag_ids as [given, ids]: given is false for null or *)
(* an absent field.  Requests carry no category_id.                        *)
(***************************************************************************)

NoTagIds == [given |-> FALSE, ids |-> <<>>]

TagIds(ids) == [given |-> TRUE, ids |-> ids]

\* bool(payload.tag_ids): neither None nor the empty list
Truthy(tag_ids) == tag_ids.given /\ tag_ids.ids # <<>>

\* db.query(Tag).filter(Tag.id.in_(tag_ids)).all(): the ids of the rows
\* found, each stored tag once
TagsIn(db, tag_ids) == {id \in DOMAIN db.tags : \E i \in DOMAIN tag_ids : tag_ids[i] = id}

NoteRead8(id, note) == [id |-> id, title |-> note.title, tags |-> note.tags]

NoteResult(status, body, table) == [status |-> status, body |-> body, notes |-> table]

\* POST /notes/
create_note8(db, table, payload) ==
    LET tags == IF Truthy(payload.tag_ids) THEN TagsIn(db, payload.tag_ids.ids) ELSE {}
        made == create(table, [title |-> payload.title, tags |-> tags])
    IN  IF Truthy(payload.tag_ids) /\ Cardinality(tags) # Len(payload.tag_ids.ids)
        THEN NoteResult(404, <<>>, table)
        ELSE NoteResult(HTTP_201_CREATED, <<NoteRead8(made.id, made.table[made.id])>>,
                        made.table)

\* PATCH /notes/{note_id}: payload.title is Null when the field is not sent
patch_note8(db, table, note_id, payload) ==
    IF note_id \notin DOMAIN table THEN NoteResult(404, <<>>, table)
    ELSE
    LET titled == IF payload.title.kind = "str"
                  THEN [table[note_id] EXCEPT !.title = payload.title.value]
                  ELSE table[note_id]
        tags == TagsIn(db, payload.tag_ids.ids)
        note == IF ~payload.tag_ids.given THEN titled
                ELSE IF payload.tag_ids.ids # <<>> THEN [titled EXCEPT !.tags = tags]
                ELSE [titled EXCEPT !.tags = {}]
    IN  IF Truthy(payload.tag_ids) /\ Cardinality(tags) # Len(payload.tag_ids.ids)
        THEN NoteResult(404, <<>>, table)
        ELSE NoteResult(200, <<NoteRead8(note_id, note)>>,
                        [table EXCEPT ![note_id] = note])

\* PUT /notes/{note_id}
update_note8(db, table, note_id, payload) ==
    IF note_id \notin DOMAIN table THEN NoteResult(404, <<>>, table)
    ELSE
    LET tags == IF Truthy(payload.tag_ids) THEN TagsIn(db, payload.tag_ids.ids) ELSE {}
        note == [title |-> payload.title, tags |-> tags]
    IN  IF Truthy(payload.tag_ids) /\ Cardinality(tags) # Len(payload.tag_ids.ids)
        THEN NoteResult(404, <<>>, table)
        ELSE NoteResult(200, <<NoteRead8(note_id, note)>>,
                        [table EXCEPT ![note_id] = note])

(***************************************************************************)
(* Calls of the extractors.  The input text is drawn from the texts of at  *)
(* most MaxLines lines of InputLines (at most MaxDedupLines lines of       *)
(* DedupLines), joined by "\n"; each action is one call, whose result is   *)
(* kept in out and raised.                                                 *)
(***************************************************************************)
MaxLines == 2

MaxDedupLines == 3

InputLines ==
    {
      <<>>, <<" "," ">>, <<"\t">>, <<"t","o","d","o",":"," ","x">>,
      <<"T","O","D","O",":"," ","x">>, <<"-"," ","["," ","]">>,
      <<"-"," ","["," ","]"," ","F","i","x"," ","i","t">>,
      <<"-"," ","[","T","O","D","O","]"," ","X">>, <<"*"," ","f","i","x"," ","i","t","!">>,
      <<"-"," ","F","i","x"," ","i","t","!">>, <<"1","."," ","W","r","i","t","e"," ","i","t">>,
      <<"2",")"," ","F","i","x"," ","i","t">>, <<"F","i","x","e","d"," ","i","t">>,
      <<"F","i","x"," ","i","t","?">>, <<"T","O","D","O"," ",":"," ","o","k","?">>,
      <<"n","o","t","e"," ",":","x">>, <<"n","e","e","d"," ","t","o"," ","g","o">>,
      <<"S","h","i","p"," ","i","t","!"," ","-">>, <<"\t","-"," ","T","O","D","O",":"," ","x">>,
      <<"o","k">>, <<"1","2","!">>,
      <<"A","d","d"," ","a"," ","#","T","a","g",","," ","#","t","a","g","!">>,
      <<"#","#","a"," ","#","b","_","1","#","C">>, <<"#"," ","a","#">>,
      <<"F","i","x","."," ","a","d","d"," ","x","!"," ","G","o">>,
      <<"n","e","x","t",":"," ","x">>, <<"a","["," ","]","b">>,
      <<"U+2022"," ","F","i","x"," ","i","t">>, <<"O","h"," ","n","o","!">> }

DedupLines ==
    {
      <<>>, <<"t","o","d","o",":"," ","x">>, <<"T","O","D","O",":"," ","x">>,
      <<"-"," ","F","i","x"," ","i","t","!">>, <<"*"," ","f","i","x"," ","i","t","!">>,
      <<"1","."," ","S","h","i","p"," ","i","t","!">>, <<"n","e","x","t",":"," ","y">>,
      <<"#","a"," ","#","A">> }

RECURSIVE JoinLines(_)
JoinLines(ls) ==
    IF ls = <<>> THEN <<>>
    ELSE IF Len(ls) = 1 THEN ls[1]
    ELSE ls[1] \o <<"\n">> \o JoinLines(Tail(ls))

TextsOf(lineSet, n) == {JoinLines(ls) : ls \in UNION {[1..k -> lineSet] : k \in 0..n}}

VARIABLES
    text,      \* the argument of the call
    fn,        \* the function called, "none" before the call
    out,       \* the list the call returned
    raised,    \* whether the call raised instead
    notes,     \* week4: the committed notes table
    items,     \* week4: the committed action_items table
    last,      \* the last request served and its response
    week8,     \* week8: the committed database
    week7,     \* week7: the committed database
    week5,     \* week5: the committed database
    github,    \* week3: the issues and comments of the repository on GitHub
    callers,   \* week3: where each call of a tool of the MCP server stands
    week2,     \* week2: the committed database
    session,   \* week4: the session of get_db or get_session and its database
    notes8     \* week8: the committed notes table, each note with its tags

extractVars == <<text, fn, out, raised>>

week4Vars == <<notes, items, last>>

restVars == <<week8, week7, week5>>

week3Vars == <<github, callers>>

moreVars == <<github, callers, week2, session, notes8>>

\* what a step of week3 leaves alone
notWeek3 == <<text, fn, out, raised, notes, items, last, week8, week7, week5, week2, session, notes8>>

\* what a request to week2 leaves alone
notWeek2 ==
    <<text, fn, out, raised, notes, items, week8, week7, week5, github, callers, session,
      notes8>>

\* what a step of a session leaves alone
notSession ==
    <<text, fn, out, raised, notes, items, last, week8, week7, week5, github, callers, week2,
      notes8>>

\* what a request to the notes of week8 leaves alone
notNotes8 ==
    <<text, fn, out, raised, notes, items, week7, week5, github, callers, week2, session>>

vars ==
    <<text, fn, out, raised, notes, items, last, week8, week7, week5, github, callers, week2,
      session, notes8>>

\* the request record of a client that has sent nothing yet
NoRequest ==
    [op |-> "none", id |-> 0, title |-> Unset, content |-> Unset,
     description |-> Unset, completed |-> UnsetBool, status |-> UnsetName,
     search_query |-> Unset, skip |-> UnsetInt, limit |-> UnsetInt]

\* Base.metadata.create_all on a new database file: both tables empty
InitWeek4 ==
    /\ notes = <<>>
    /\ items = <<>>
    /\ last = [req |-> NoRequest, status |-> 0, body |-> <<>>]
    /\ week8 = NewDb8
    /\ week7 = NewDb7
    /\ week5 = NewDb5
    /\ github = NewRepository
    /\ callers = [c \in Callers |-> NoCall]
    /\ week2 = NewDb2
    /\ session = NoSession
    /\ notes8 = <<>>

\* the application started on a new database, no extractor call made
InitApp ==
    /\ text = <<>>
    /\ fn = "none"
    /\ out = <<>>
    /\ raised = FALSE
    /\ InitWeek4

InitExtract ==
    /\ text \in TextsOf(InputLines, MaxLines)
    /\ fn = "none"
    /\ out = <<>>
    /\ raised = FALSE
    /\ InitWeek4

InitDedup ==
    /\ text \in TextsOf(DedupLines, MaxDedupLines)
    /\ fn = "none"
    /\ out = <<>>
    /\ raised = FALSE
    /\ InitWeek4

Call(name, result) ==
    /\ fn = "none"
    /\ fn' = name
    /\ out' = result.value
    /\ raised' = result.raised
    /\ UNCHANGED text
    /\ UNCHANGED week4Vars
    /\ UNCHANGED restVars
    /\ UNCHANGED moreVars

CallExtractWeek2 == Call("week2", ExtractWeek2(text))

CallExtractSimple == Call("simple", ExtractSimple(text))

CallExtractWeek8 == Call("week8", ExtractWeek8(text))

CallExtractHashtags == Call("hashtags", extract_hashtags(text))

NextExtract ==
    \/ CallExtractWeek2
    \/ CallExtractSimple
    \/ CallExtractWeek8
    \/ CallExtractHashtags

SpecExtract == InitExtract /\ [][NextExtract]_vars

SpecDedup == InitDedup /\ [][NextExtract]_vars


(***************************************************************************)
(* week4: the requests of one client, served one at a time.                *)
(***************************************************************************)

\* the largest ids the tables hand out in the model
MaxNoteId == 2

MaxItemId == 2

LongTitle == [i \in 1..(MAX_TITLE_LENGTH + 1) |-> "x"]

CreateTitles == {Str(<<"a">>), Str(<<" ","b"," ">>), Str(<<" ">>), Str(LongTitle), Unset}

CreateContents == {Str(<<"c">>), Null}

UpdateTitles == {Unset, Null, Str(<<"b"," ">>)}

UpdateContents == {Unset, Str(<<" ">>)}

CreateDescriptions == {Str(<<"x"," ">>), Str(<<" ">>), Unset}

UpdateDescriptions == {Unset, Str(<<" ">>)}

UpdateCompleted == {UnsetBool, NullBool, Bool(TRUE), Bool(FALSE)}

StatusFilters == {UnsetName, Name("pending"), Name("completed"), Name("all")}

SearchQueries == {Unset, Str(<<"B">>)}

Pagination == 
    { [skip |-> UnsetInt, limit |-> UnsetInt], [skip |-> Int_(1), limit |-> Int_(1)],
      [skip |-> Int_(-1), limit |-> Int_(1001)] }

NoteIds == 1..(MaxNoteId + 1)

ItemIds == 1..(MaxItemId + 1)

\* the session get_db opens for a request
Db == [notes |-> notes, items |-> items]

\* get_db and the exception handlers around a handler: commit when the
\* handler returned, roll back when it raised, and answer with the status
Serve(req, success, result) ==
    /\ notes' = IF result.exc = "" THEN result.session.notes ELSE notes
    /\ items' = IF result.exc = "" THEN result.session.items ELSE items
    /\ last' = [req |-> req, status |-> StatusOf(result.exc, success), body |-> result.body]
    /\ UNCHANGED extractVars
    /\ UNCHANGED restVars
    /\ UNCHANGED moreVars

\* GET /notes/
list_notes ==
    \E p \in Pagination :
        Serve([NoRequest EXCEPT !.op = "list_notes", !.skip = p.skip, !.limit = p.limit], 200,
              IF ~PaginationValid(p.skip, p.limit) THEN Raised("RequestValidationError", Db)
              ELSE get_all_notes(Db, QueryValue(p.skip, 0), QueryValue(p.limit, 100)))

\* POST /notes/
create_note ==
    \E title \in CreateTitles, content \in CreateContents :
        /\ NextRowId(notes) <= MaxNoteId
        /\ LET payload == NoteCreate(title, content)
           IN  Serve([NoRequest EXCEPT !.op = "create_note", !.title = title, !.content = content],
                     HTTP_201_CREATED,
                     IF payload.raised THEN Raised("RequestValidationError", Db)
                     ELSE NoteService_create_note(Db, payload.value))

\* GET /notes/search/
search_notes ==
    \E search_query \in SearchQueries, p \in Pagination :
        Serve([NoRequest EXCEPT !.op = "search_notes", !.search_query = search_query,
                                !.skip = p.skip, !.limit = p.limit], 200,
              IF ~PaginationValid(p.skip, p.limit) THEN Raised("RequestValidationError", Db)
              ELSE NoteService_search_notes(Db, search_query,
                                            QueryValue(p.skip, 0), QueryValue(p.limit, 100)))

\* GET /notes/{note_id}
get_note ==
    \E note_id \in NoteIds :
        Serve([NoRequest EXCEPT !.op = "get_note", !.id = note_id], 200,
              get_note_by_id(Db, note_id))

\* PUT /notes/{note_id}
update_note ==
    \E note_id \in NoteIds, title \in UpdateTitles, content \in UpdateContents :
        LET payload == NoteUpdate(title, content)
        IN  Serve([NoRequest EXCEPT !.op = "update_note", !.id = note_id,
                                    !.title = title, !.content = content], 200,
                  IF payload.raised THEN Raised("RequestValidationError", Db)
                  ELSE NoteService_update_note(Db, note_id, payload.value))

\* DELETE /notes/{note_id}
delete_note ==
    \E note_id \in NoteIds :
        Serve([NoRequest EXCEPT !.op = "delete_note", !.id = note_id], 204,
              NoteService_delete_note(Db, note_id))

\* GET /action-items/
list_action_items ==
    \E status \in StatusFilters, p \in Pagination :
        Serve([NoRequest EXCEPT !.op = "list_action_items", !.status = status,
                                !.skip = p.skip, !.limit = p.limit], 200,
              IF ~PaginationValid(p.skip, p.limit) THEN Raised("RequestValidationError", Db)
              ELSE get_all_action_items(Db, status,
                                        QueryValue(p.skip, 0), QueryValue(p.limit, 100)))

\* POST /action-items/
create_item ==
    \E description \in CreateDescriptions :
        /\ NextRowId(items) <= MaxItemId
        /\ LET payload == ActionItemCreate(description)
           IN  Serve([NoRequest EXCEPT !.op = "create_item", !.description = description],
                     HTTP_201_CREATED,
                     IF payload.raised THEN Raised("RequestValidationError", Db)
                     ELSE create_action_item(Db, payload.value))

\* GET /action-items/{item_id}
get_action_item ==
    \E item_id \in ItemIds :
        LET item == get_or_404(items, item_id)
        IN  Serve([NoRequest EXCEPT !.op = "get_action_item", !.id = item_id], 200,
                  IF item.raised THEN Raised(item.value, Db)
                  ELSE Returned(<<ActionItemRead(item_id, items[item_id])>>, Db))

\* PUT /action-items/{item_id}
update_item ==
    \E item_id \in ItemIds, description \in UpdateDescriptions, completed \in UpdateCompleted :
        LET payload == ActionItemUpdate(description, completed)
        IN  Serve([NoRequest EXCEPT !.op = "update_item", !.id = item_id,
                                    !.description = description, !.completed = completed], 200,
                  IF payload.raised THEN Raised("RequestValidationError", Db)
                  ELSE update_action_item(Db, item_id, payload.value))

\* DELETE /action-items/{item_id}
delete_item ==
    \E item_id \in ItemIds :
        Serve([NoRequest EXCEPT !.op = "delete_item", !.id = item_id], 204,
              delete_action_item(Db, item_id))

\* PUT /action-items/{item_id}/complete
complete_item ==
    \E item_id \in ItemIds :
        Serve([NoRequest EXCEPT !.op = "complete_item", !.id = item_id], 200,
              complete_action_item(Db, item_id))

NextWeek4 ==
    \/ list_notes
    \/ create_note
    \/ search_notes
    \/ get_note
    \/ update_note
    \/ delete_note
    \/ list_action_items
    \/ create_item
    \/ get_action_item
    \/ update_item
    \/ delete_item
    \/ complete_item

SpecWeek4 == InitApp /\ [][NextWeek4]_vars

(***************************************************************************)
(* week8: the requests a client sends to the categories and tags routers.  *)
(***************************************************************************)

\* rows ever inserted into the week8 database
MaxCreated8 == 2

\* the request bodies: the categories router gets every kind of name and
\* description, the tags router, whose code is the same, a few of them
Names8(router) ==
    IF router = "categories" THEN {<<"a">>, <<"A">>, <<"_">>} ELSE {<<"a">>, <<"A">>}

Descriptions8(router) == IF router = "categories" THEN {Null, Str(<<"d">>)} ELSE {Null}

PatchNames8(router) ==
    IF router = "categories" THEN {Unset, Str(<<"A">>), Str(<<"_">>)}
    ELSE {Unset, Str(<<"A">>)}

PatchDescriptions8(router) ==
    IF router = "categories" THEN {Unset, Null, Str(<<"e">>)} ELSE {Unset, Str(<<"e">>)}

Ids8 == 1..MaxCreated8

\* the default sort, the columns, a name that is no attribute, a class
\* attribute that is no column, and a doubled dash
Sorts8(router) ==
    IF router = "categories"
    THEN {Sort(1, "created_at"), Sort(0, "created_at"), Sort(0, "name"), Sort(1, "name"),
          Sort(0, "id"), Sort(0, "invalid_field"), Sort(0, "metadata"), Sort(2, "name")}
    ELSE {Sort(1, "created_at"), Sort(0, "name"), Sort(0, "registry")}

ListQueries8(router) ==
    {[skip |-> UnsetInt, limit |-> UnsetInt, sort |-> s] : s \in Sorts8(router)}
    \cup {[skip |-> Int_(1), limit |-> Int_(1), sort |-> Sort(0, "name")],
          [skip |-> Int_(-1), limit |-> Int_(201), sort |-> Sort(1, "created_at")]}

\* Query(0, ge=0) and Query(50, ge=1, le=200)
PaginationValid8(q) ==
    /\ QueryValue(q.skip, 0) >= 0
    /\ QueryValue(q.limit, 50) >= 1
    /\ QueryValue(q.limit, 50) <= 200

\* the response leaves the application and the database is as the handler
\* left it
Serve8(req, result) ==
    /\ week8' = result.db
    /\ last' = [req |-> req, status |-> result.status, body |-> result.body]
    /\ UNCHANGED extractVars
    /\ UNCHANGED <<notes, items, week7, week5>>
    /\ UNCHANGED moreVars

\* GET /categories/ and GET /tags/
list8 ==
    \E router \in {"categories", "tags"} : \E q \in ListQueries8(router) :
        Serve8([op |-> "list", router |-> router, query |-> q],
               IF ~PaginationValid8(q) THEN Result(422, <<>>, week8)
               ELSE IF router = "categories"
               THEN list_categories(week8, QueryValue(q.skip, 0), QueryValue(q.limit, 50), q.sort)
               ELSE list_tags(week8, QueryValue(q.skip, 0), QueryValue(q.limit, 50), q.sort))

\* POST /categories/ and POST /tags/
create8 ==
    /\ week8.clock <= MaxCreated8
    /\ \E router \in {"categories", "tags"} :
       \E name \in Names8(router), extra \in Descriptions8(router) :
        Serve8([op |-> "create", router |-> router, name |-> name, extra |-> extra],
               IF router = "categories"
               THEN create_category(week8, [name |-> name, description |-> extra])
               ELSE create_tag(week8, [name |-> name, color |-> extra]))

\* GET /categories/{id} and GET /tags/{id}
get8 ==
    \E router \in {"categories", "tags"}, id \in Ids8 :
        Serve8([op |-> "get", router |-> router, id |-> id],
               IF router = "categories" THEN get_category(week8, id)
               ELSE get_tag(week8, id))

\* PATCH /categories/{id} and PATCH /tags/{id}
patch8 ==
    \E router \in {"categories", "tags"}, id \in Ids8 :
       \E name \in PatchNames8(router), extra \in PatchDescriptions8(router) :
        Serve8([op |-> "patch", router |-> router, id |-> id, name |-> name, extra |-> extra],
               IF router = "categories"
               THEN patch_category(week8, id, [name |-> PatchField(name),
                                               description |-> PatchField(extra)])
               ELSE patch_tag(week8, id, [name |-> PatchField(name),
                                          color |-> PatchField(extra)]))

\* PUT /categories/{id} and PUT /tags/{id}
put8 ==
    \E router \in {"categories", "tags"}, id \in Ids8 :
       \E name \in Names8(router), extra \in Descriptions8(router) :
        Serve8([op |-> "put", router |-> router, id |-> id, name |-> name, extra |-> extra],
               IF router = "categories"
               THEN update_category(week8, id, [name |-> name, description |-> extra])
               ELSE update_tag(week8, id, [name |-> name, color |-> extra]))

\* DELETE /categories/{id} and DELETE /tags/{id}
delete8 ==
    \E router \in {"categories", "tags"}, id \in Ids8 :
        Serve8([op |-> "delete", router |-> router, id |-> id],
               IF router = "categories" THEN delete_category(week8, id)
               ELSE delete_tag(week8, id))

NextWeek8 ==
    \/ list8
    \/ create8
    \/ get8
    \/ patch8
    \/ put8
    \/ delete8

SpecWeek8 == InitApp /\ [][NextWeek8]_vars

(***************************************************************************)
(* week7: the requests a client sends to the application.                  *)
(***************************************************************************)

\* writes (inserts and updates) ever made to the week7 database
MaxClock7 == 3

Ids7 == 1..2

Titles7 == {Str(<<"a">>), Str(<<"B">>), Str(<<" ">>)}

CategoryIds7 == {NullInt, Int_(1)}

\* the default sort, columns, a name that is no attribute, a class attribute
\* that is no column
NoteSorts7 ==
    {Sort(1, "created_at"), Sort(0, "title"), Sort(1, "title"), Sort(0, "updated_at"),
     Sort(0, "invalid_field"), Sort(0, "metadata")}

\* query strings of GET /notes/
NoteQueries7 ==
    {[q |-> Unset, category_id |-> UnsetInt, skip |-> UnsetInt, limit |-> UnsetInt,
      sort |-> s] : s \in NoteSorts7}
    \cup {[q |-> Unset, category_id |-> UnsetInt, skip |-> Int_(k), limit |-> Int_(1),
           sort |-> s] : k \in {0, 1}, s \in {Sort(1, "created_at"), Sort(0, "title")}}
    \cup {[q |-> Str(<<"a">>), category_id |-> UnsetInt, skip |-> UnsetInt,
           limit |-> UnsetInt, sort |-> Sort(1, "created_at")],
          [q |-> Unset, category_id |-> Int_(1), skip |-> UnsetInt,
           limit |-> UnsetInt, sort |-> Sort(1, "created_at")],
          [q |-> Unset, category_id |-> UnsetInt, skip |-> Int_(-1),
           limit |-> Int_(201), sort |-> Sort(1, "created_at")]}

\* query strings of GET /action-items/
ItemQueries7 ==
    {[completed |-> c, note_id |-> UnsetInt, skip |-> UnsetInt, limit |-> UnsetInt,
      sort |-> Sort(1, "created_at")] : c \in {UnsetBool, Bool(TRUE)}}
    \cup {[completed |-> UnsetBool, note_id |-> UnsetInt, skip |-> Int_(k),
           limit |-> Int_(1), sort |-> Sort(0, "completed")] : k \in {0, 1}}
    \cup {[completed |-> UnsetBool, note_id |-> Int_(1), skip |-> UnsetInt,
           limit |-> UnsetInt, sort |-> Sort(0, "id")],
          [completed |-> UnsetBool, note_id |-> UnsetInt, skip |-> UnsetInt,
           limit |-> UnsetInt, sort |-> Sort(0, "registry")]}

\* query strings of GET /categories/ and GET /tags/
OtherQueries7 ==
    {[skip |-> UnsetInt, limit |-> UnsetInt, sort |-> Sort(1, "created_at")],
     [skip |-> Int_(0), limit |-> Int_(1), sort |-> Sort(0, "name")]}

\* the response leaves the application and the database is as the handler
\* left it
Serve7(req, result) ==
    /\ week7' = result.db
    /\ last' = [req |-> req, status |-> result.status, body |-> result.body]
    /\ UNCHANGED extractVars
    /\ UNCHANGED <<notes, items, week8, week5>>
    /\ UNCHANGED moreVars

\* GET /notes/
list_notes_7 ==
    \E query \in NoteQueries7 :
        Serve7([op |-> "list", router |-> "notes", query |-> query],
               Dispatch7("notes", PaginationValid8(query),
                         list_notes7(week7, query.q, QueryValue(query.skip, 0),
                                     QueryValue(query.limit, 50), query.sort),
                         week7))

\* POST /notes/
create_note_7 ==
    /\ week7.clock <= MaxClock7
    /\ \E title \in Titles7, category_id \in CategoryIds7 :
        LET payload == NoteCreate7(title, Str(<<"c">>), category_id)
        IN  Serve7([op |-> "create", router |-> "notes", title |-> title,
                    category_id |-> category_id],
                   Dispatch7("notes", ~payload.raised, create_note7(week7, payload.value),
                             week7))

\* PATCH /notes/{note_id}
patch_note_7 ==
    /\ week7.clock <= MaxClock7
    /\ \E id \in Ids7, title \in {Unset, Str(<<"b"," ">>)} :
        LET payload == NotePatch7(title, Unset)
        IN  Serve7([op |-> "patch", router |-> "notes", id |-> id, title |-> title],
                   Dispatch7("notes", ~payload.raised, patch_note7(week7, id, payload.value),
                             week7))

\* DELETE /notes/{note_id}
delete_note_7 ==
    \E id \in Ids7 :
        Serve7([op |-> "delete", router |-> "notes", id |-> id],
               Dispatch7("notes", TRUE, delete_note7(week7, id), week7))

\* GET /action-items/
list_items_7 ==
    \E query \in ItemQueries7 :
        Serve7([op |-> "list", router |-> "action_items", query |-> query],
               Dispatch7("action_items", PaginationValid8(query),
                         list_items7(week7, query.completed, query.note_id,
                                     QueryValue(query.skip, 0), QueryValue(query.limit, 50),
                                     query.sort),
                         week7))

\* POST /action-items/
create_item_7 ==
    /\ week7.clock <= MaxClock7
    /\ \E note_id \in {NullInt, Int_(1)} :
        LET payload == ActionItemCreate7(Str(<<"x">>), note_id)
        IN  Serve7([op |-> "create", router |-> "action_items", note_id |-> note_id],
                   Dispatch7("action_items", ~payload.raised,
                             create_item7(week7, payload.value), week7))

\* PUT /action-items/{item_id}/complete
complete_item_7 ==
    /\ week7.clock <= MaxClock7
    /\ \E id \in Ids7 :
        Serve7([op |-> "complete", router |-> "action_items", id |-> id],
               Dispatch7("action_items", TRUE, complete_item7(week7, id), week7))

\* GET and POST on /categories/ and /tags/; the handlers of week7's
\* categories and tags routers are those of week8
categories_tags_7 ==
    \E router \in {"categories", "tags"} :
        \/ \E query \in OtherQueries7 :
             Serve7([op |-> "list", router |-> router, query |-> query],
                    Dispatch7(router, PaginationValid8(query),
                              IF router = "categories"
                              THEN list_categories(week7, QueryValue(query.skip, 0),
                                                   QueryValue(query.limit, 50), query.sort)
                              ELSE list_tags(week7, QueryValue(query.skip, 0),
                                             QueryValue(query.limit, 50), query.sort),
                              week7))
        \/ \E name \in {<<"a">>} :
             Serve7([op |-> "create", router |-> router, name |-> name],
                    Dispatch7(router, TRUE,
                              IF router = "categories"
                              THEN create_category(week7, [name |-> name, description |-> Null])
                              ELSE create_tag(week7, [name |-> name, color |-> Null]),
                              week7))

NextWeek7 ==
    \/ list_notes_7
    \/ create_note_7
    \/ patch_note_7
    \/ delete_note_7
    \/ list_items_7
    \/ create_item_7
    \/ complete_item_7
    \/ categories_tags_7

SpecWeek7 == InitApp /\ [][NextWeek7]_vars

(***************************************************************************)
(* week5: the requests a client sends to the notes and tags routers.       *)
(***************************************************************************)

\* rows a week5 table holds at most
MaxRows5 == 2

Ids5 == 1..MaxRows5

TagNames5 == {<<"a">>, <<" ", "a">>, <<"b", " ">>, <<" ">>, <<>>}

NoteTitles5 == {<<"b">>, <<"A">>}

\* query strings of GET /notes/search
Searches5 ==
    {[q |-> Unset, tag_id |-> UnsetInt, page |-> 1, page_size |-> 1, sort |-> "title_asc"],
     [q |-> Unset, tag_id |-> UnsetInt, page |-> 2, page_size |-> 1, sort |-> "title_asc"],
     [q |-> Unset, tag_id |-> UnsetInt, page |-> 2, page_size |-> 1, sort |-> "created_desc"],
     [q |-> Unset, tag_id |-> UnsetInt, page |-> 1, page_size |-> 10, sort |-> "unknown"],
     [q |-> Str(<<" ", "a">>), tag_id |-> Int_(1), page |-> 1, page_size |-> 10,
      sort |-> "title_asc"],
     [q |-> Unset, tag_id |-> Int_(2), page |-> 3, page_size |-> 1, sort |-> "created_desc"],
     [q |-> Str(<<" ">>), tag_id |-> UnsetInt, page |-> 0, page_size |-> 101,
      sort |-> "created_desc"]}

\* Query(1, ge=1) and Query(10, ge=1, le=100)
PageValid5(query) == query.page >= 1 /\ query.page_size >= 1 /\ query.page_size <= 100

\* get_db around a handler of week5: the response leaves the application
\* and the database is as the handler left it (every handler raises before
\* its first write)
Serve5(req, result) ==
    /\ week5' = result.db
    /\ last' = [req |-> req, status |-> result.status, body |-> result.body]
    /\ UNCHANGED extractVars
    /\ UNCHANGED <<notes, items, week8, week7>>
    /\ UNCHANGED moreVars

\* GET /tags/
list_tags_5 == Serve5([op |-> "list_tags"], list_tags5(week5))

\* POST /tags/
create_tag_5 ==
    \E name \in TagNames5 :
        /\ DOMAIN create_tag5(week5, [name |-> name]).db.tags \subseteq Ids5
        /\ Serve5([op |-> "create_tag", name |-> name], create_tag5(week5, [name |-> name]))

\* DELETE /tags/{tag_id}
delete_tag_5 ==
    \E id \in Ids5 : Serve5([op |-> "delete_tag", id |-> id], delete_tag5(week5, id))

\* POST /notes/
create_note_5 ==
    /\ NextRowId(week5.notes) <= MaxRows5
    /\ \E title \in NoteTitles5 :
        Serve5([op |-> "create_note", title |-> title],
               create_note5(week5, [title |-> title, content |-> <<"a">>]))

\* GET /notes/search
search_notes_5 ==
    \E query \in Searches5 :
        Serve5([op |-> "search", query |-> query],
               IF ~PageValid5(query) THEN Result(422, <<>>, week5)
               ELSE search_notes5(week5, query.q, query.tag_id, query.page,
                                  query.page_size, query.sort))

\* POST /notes/{note_id}/tags
attach_5 ==
    \E note_id \in Ids5, tag_id \in Ids5 :
        Serve5([op |-> "attach", note_id |-> note_id, tag_id |-> tag_id],
               attach_tag_to_note(week5, note_id, tag_id))

\* DELETE /notes/{note_id}/tags/{tag_id}
detach_5 ==
    \E note_id \in Ids5, tag_id \in Ids5 :
        Serve5([op |-> "detach", note_id |-> note_id, tag_id |-> tag_id],
               detach_tag_from_note(week5, note_id, tag_id))

\* the tags router, with the notes that lose the tags it deletes
NextTags5 ==
    \/ list_tags_5
    \/ create_tag_5
    \/ delete_tag_5
    \/ create_note_5
    \/ attach_5

SpecTags5 == InitApp /\ [][NextTags5]_vars

\* the notes router, with the tags it attaches
NextNotes5 ==
    \/ create_tag_5
    \/ create_note_5
    \/ search_notes_5
    \/ attach_5
    \/ detach_5

SpecNotes5 == InitApp /\ [][NextNotes5]_vars

(***************************************************************************)
(* The writing requests of week4 and week8 together.  The two applications *)
(* share nothing, so a run writes to one of them at a time; the reading    *)
(* requests, which leave both databases as they are, are left out.         *)
(***************************************************************************)

WritesWeek4 ==
    \/ create_note
    \/ update_note
    \/ delete_note
    \/ create_item
    \/ update_item
    \/ delete_item
    \/ complete_item

WritesWeek8 ==
    \/ create8
    \/ patch8
    \/ put8
    \/ delete8

NextWrites ==
    \/ week8 = NewDb8 /\ WritesWeek4
    \/ notes = <<>> /\ items = <<>> /\ WritesWeek8

SpecWrites == InitApp /\ [][NextWrites]_vars

(***************************************************************************)
(* week3: calls of the two tools.  A call is a sequence of HTTP requests;  *)
(* each request is one step, and GitHub serves the requests of all callers *)
(* and of the other users of the repository one at a time.                 *)
(***************************************************************************)

\* issues the repository holds at most
MaxIssues == 102

Tools == {"get_or_create_daily_issue", "add_daily_comment"}

week3Frame == UNCHANGED notWeek3

\* where a call goes on with the daily issue in hand
AfterIssue(tool) == IF tool = "add_daily_comment" THEN "comment" ELSE "returned"

\* somebody opens an issue, or a pull request, with another title
other_issue ==
    /\ Len(github.issues) < MaxIssues
    /\ github' = [github EXCEPT !.issues = Append(@, [title |-> "other", labels |-> <<>>])]
    /\ UNCHANGED callers
    /\ week3Frame

\* a tool is called: get_or_create_daily_issue starts
call_3(c) ==
    /\ callers[c].pc \in {"idle", "returned", "raised"}
    /\ \E tool \in Tools :
        callers' = [callers EXCEPT ![c] = [pc |-> "find", tool |-> tool, issue |-> 0, sent |-> 0]]
    /\ UNCHANGED github
    /\ week3Frame

\* the list request of find_issue_by_title and what get_or_create_daily_issue
\* does with its answer; raise_for_status raises on an error answer
find_3(c) ==
    /\ callers[c].pc = "find"
    /\ \E ok \in BOOLEAN :
        LET existing_issue == find_issue_by_title(github.issues, get_today_title)
        IN  callers' = [callers EXCEPT ![c] =
                IF ~ok THEN [@ EXCEPT !.pc = "raised"]
                ELSE IF existing_issue = 0 THEN [@ EXCEPT !.pc = "create"]
                ELSE [@ EXCEPT !.issue = existing_issue,
                               !.pc = AfterIssue(callers[c].tool)]]
    /\ UNCHANGED github
    /\ week3Frame

\* the create request of create_issue
create_3(c) ==
    /\ callers[c].pc = "create"
    /\ Len(github.issues) < MaxIssues
    /\ \E ok \in BOOLEAN :
        IF ok
        THEN /\ github' = [github EXCEPT !.issues = create_issue(@, get_today_title)]
             /\ callers' = [callers EXCEPT ![c] =
                    [@ EXCEPT !.issue = Len(github.issues) + 1, !.sent = @ + 1,
                              !.pc = AfterIssue(callers[c].tool)]]
        ELSE /\ callers' = [callers EXCEPT ![c] = [@ EXCEPT !.pc = "raised", !.sent = @ + 1]]
             /\ UNCHANGED github
    /\ week3Frame

\* the comment request of add_comment
comment_3(c) ==
    /\ callers[c].pc = "comment"
    /\ \E ok \in BOOLEAN :
        IF ok
        THEN /\ github' = [github EXCEPT !.comments = @ \cup {callers[c].issue}]
             /\ callers' = [callers EXCEPT ![c] = [@ EXCEPT !.pc = "returned"]]
        ELSE /\ callers' = [callers EXCEPT ![c] = [@ EXCEPT !.pc = "raised"]]
             /\ UNCHANGED github
    /\ week3Frame

\* one caller at a time, in a repository other people use
NextDaily ==
    \/ other_issue
    \/ call_3(1)
    \/ find_3(1)
    \/ create_3(1)
    \/ comment_3(1)

SpecDaily == InitApp /\ [][NextDaily]_vars

\* two callers, their requests interleaved
NextConcurrent ==
    \/ \E c \in Callers : call_3(c)
    \/ \E c \in Callers : find_3(c)
    \/ \E c \in Callers : create_3(c)
    \/ \E c \in Callers : comment_3(c)

SpecConcurrent == InitApp /\ [][NextConcurrent]_vars

(***************************************************************************)
(* week2: requests to the action-items router.                             *)
(***************************************************************************)

\* rows a week2 table holds at most
MaxRows2 == 2

Ids2 == 1..MaxRows2

Texts2 == {<<>>, <<"t">>}

\* what the model may answer
LlmAnswers ==
    {LlmItems(<<>>), LlmItems(<<<<"a">>>>), LlmItems(<<<<"b">>, <<"b">>>>),
     LlmNotJson, LlmFailure}

Serve2(req, result) ==
    /\ week2' = result.db
    /\ last' = [req |-> req, status |-> result.status, body |-> result.body]
    /\ UNCHANGED notWeek2

\* POST /action-items/extract-llm; ExtractRequest refuses an empty text
extract_llm_2 ==
    \E text_ \in Texts2, save_note \in BOOLEAN, answer \in LlmAnswers,
       note_ok \in BOOLEAN, items_ok \in BOOLEAN :
        LET result == IF text_ = <<>> THEN Result(422, <<>>, week2)
                      ELSE extract_llm(week2, text_, save_note, answer, note_ok, items_ok)
        IN  /\ DOMAIN result.db.notes \subseteq Ids2
            /\ DOMAIN result.db.action_items \subseteq Ids2
            /\ Serve2([op |-> "extract_llm", text |-> text_, save_note |-> save_note,
                       answer |-> answer, note_ok |-> note_ok, items_ok |-> items_ok],
                      result)

\* POST /action-items/{action_item_id}/done
mark_done_2 ==
    \E id \in Ids2, done \in BOOLEAN, sqlite_ok \in BOOLEAN :
        Serve2([op |-> "mark_done", id |-> id, done |-> done, sqlite_ok |-> sqlite_ok],
               mark_done2(week2, id, done, sqlite_ok))

NextWeek2 ==
    \/ extract_llm_2
    \/ mark_done_2

SpecWeek2 == InitApp /\ [][NextWeek2]_vars

(***************************************************************************)
(* week4: one session after the other, each under get_db or get_session.   *)
(***************************************************************************)

\* the rows a handler or block writes in the model
MaxSessionRows == 3

Rows4 == 1..MaxSessionRows

sessionFrame == UNCHANGED notSession

\* the request arrives or the with block is entered: SessionLocal()
open_session ==
    /\ session.pc # "open"
    /\ \E via \in {"get_db", "get_session"} :
        session' = SessionLocal(session.store, via)
    /\ sessionFrame

\* the handler or block adds a row and flushes
add_row ==
    /\ session.pc = "open"
    /\ \E r \in Rows4 \ session.view :
        session' = [session EXCEPT !.view = @ \cup {r}, !.wrote = TRUE]
    /\ sessionFrame

\* the handler or block deletes a row and flushes
delete_row ==
    /\ session.pc = "open"
    /\ \E r \in session.view :
        session' = [session EXCEPT !.view = @ \ {r}, !.wrote = TRUE]
    /\ sessionFrame

\* what leaves the handler or block: a return, or one of the exceptions
\* the except clauses tell apart; session.commit() can raise when it has
\* something to write
EndSession(block_exc) ==
    /\ session.pc = "open"
    /\ \E commit_exc \in
           IF block_exc = "" /\ session.wrote
           THEN SqlExceptions \cup {""} ELSE {""} :
        session' = IF session.via = "get_db"
                   THEN get_db(session, block_exc, commit_exc)
                   ELSE get_session(session, block_exc, commit_exc)
    /\ sessionFrame

block_returns == EndSession("")

block_raises == \E e \in Exceptions4 : EndSession(e)

NextSession ==
    \/ open_session
    \/ add_row
    \/ delete_row
    \/ block_returns
    \/ block_raises

SpecSession == InitApp /\ [][NextSession]_vars

(***************************************************************************)
(* week8: requests to the notes router, the tags being those the tags      *)
(* router has created.                                                     *)
(***************************************************************************)

\* the largest id the notes table hands out in the model
MaxNotes8 == 2

NoteIds8 == 1..MaxNotes8

NoteTitles8 == {<<"a">>, <<"b">>}

\* no list, the empty list, one id, an id twice, two ids, and an id past
\* every tag
TagIdLists8 ==
    {NoTagIds, TagIds(<<>>), TagIds(<<1>>), TagIds(<<1, 1>>), TagIds(<<1, 2>>),
     TagIds(<<2, 1, 2>>), TagIds(<<MaxCreated8 + 1>>)}

\* the response leaves the application; the handlers read the tags and
\* write the notes
ServeNotes8(req, result) ==
    /\ notes8' = result.notes
    /\ last' = [req |-> req, status |-> result.status, body |-> result.body]
    /\ UNCHANGED week8
    /\ UNCHANGED notNotes8

\* POST /notes/
create_note_8 ==
    /\ NextRowId(notes8) <= MaxNotes8
    /\ \E title \in NoteTitles8, tag_ids \in TagIdLists8 :
        ServeNotes8([op |-> "create_note", id |-> 0, title |-> Str(title), tag_ids |-> tag_ids],
                    create_note8(week8, notes8, [title |-> title, tag_ids |-> tag_ids]))

\* PATCH /notes/{note_id}
patch_note_8 ==
    \E note_id \in NoteIds8, title \in {Null, Str(<<"b">>)}, tag_ids \in TagIdLists8 :
        ServeNotes8([op |-> "patch_note", id |-> note_id, title |-> title, tag_ids |-> tag_ids],
                    patch_note8(week8, notes8, note_id, [title |-> title, tag_ids |-> tag_ids]))

\* PUT /notes/{note_id}
update_note_8 ==
    \E note_id \in NoteIds8, title \in NoteTitles8, tag_ids \in TagIdLists8 :
        ServeNotes8([op |-> "update_note", id |-> note_id, title |-> Str(title),
                     tag_ids |-> tag_ids],
                    update_note8(week8, notes8, note_id, [title |-> title, tag_ids |-> tag_ids]))

NextNotes8 ==
    \/ create8
    \/ create_note_8
    \/ patch_note_8
    \/ update_note_8

SpecNotes8 == InitApp /\ [][NextNotes8]_vars

(***************************************************************************)
(* Properties of the extractors.                                           *)
(***************************************************************************)
Range(s) == {s[i] : i \in 1..Len(s)}

IsExtractor(f) == f \in {"week2", "simple", "week8"}

\* the items of a list whose lowercase form no earlier item has, in order
FirstOccurrences(cands) ==
    LET keep == {i \in 1..Len(cands) :
                    \A j \in 1..(i - 1) : LowerStr(cands[j]) # LowerStr(cands[i])}
        rank(i) == Cardinality({j \in keep : j <= i})
    IN  [k \in 1..Cardinality(keep) |-> cands[CHOOSE i \in keep : rank(i) = k]]

\* C1: for every input text and each extract_action_items variant (week 2,
\* weeks 4/5, week 8), no two items of the returned list have the same
\* lowercase form.
C1_NoTwoItemsSameLowercase ==
    IsExtractor(fn) =>
        \A i, j \in 1..Len(out) : i # j => LowerStr(out[i]) # LowerStr(out[j])

\* C2: for every input text and each extract_action_items variant, the call
\* returns a list none of whose items is empty or whitespace-only, also for
\* a line made only of a bullet marker and a checkbox token.
C2_NoBlankItem ==
    IsExtractor(fn) => ~raised /\ \A i \in 1..Len(out) : Strip(out[i]) # <<>>

\* C3: each extract_action_items variant returns a list without raising for
\* every text, and the empty list for the empty text and for a text made
\* only of whitespace and blank lines.
C3_TotalAndEmptyOnBlank ==
    IsExtractor(fn) => ~raised /\ (Strip(text) = <<>> => out = <<>>)

\* week 2 was called on a non-empty text made of whitespace only and
\* returned the empty list
C3_Witness ==
    /\ fn = "week2"
    /\ ~raised
    /\ out = <<>>
    /\ text # <<>>
    /\ Strip(text) = <<>>

\* the four rules as C4 words them
C4_KeywordPrefix(c) ==
    \E k \in action_keywords, n \in 0..Len(c) :
        /\ Len(c) >= Len(k) + n + 1
        /\ LowerStr(SubSeq(c, 1, Len(k))) = k
        /\ \A j \in (Len(k) + 1)..(Len(k) + n) : IsSpace(c[j])
        /\ c[Len(k) + n + 1] = ":"

C4_VerbPhrase(c) ==
    \E p \in action_verb_patterns :
        /\ Len(c) >= Len(p)
        /\ LowerStr(SubSeq(c, 1, Len(p))) = p
        /\ Len(c) > Len(p) => ~IsWordChar(c[Len(p) + 1])

C4_Exclamatory(c) == c # <<>> /\ c[Len(c)] = "!"

C4_CapitalizedImperative(c) ==
    \E n \in 1..Len(c) :
        /\ \A j \in 1..n : ~IsSpace(c[j])
        /\ n < Len(c) /\ IsSpace(c[n + 1])
        /\ LowerStr(SubSeq(c, 1, n)) \in imperative_verbs
        /\ IsUpperChar(c[1])
        /\ \E j \in (n + 1)..Len(c) : ~IsSpace(c[j])

C4_AnyRule(c) ==
    \/ C4_KeywordPrefix(c)
    \/ C4_VerbPhrase(c)
    \/ C4_Exclamatory(c)
    \/ C4_CapitalizedImperative(c)

C4_IsQuestion(c) == c # <<>> /\ c[Len(c)] = "?"

\* the cleaned lines of the text that have at least 3 characters and a letter
C4_CleanedLines ==
    {c \in {Cleaned(l) : l \in Range(SplitLines(text))} : Len(c) >= 3 /\ HasAlpha(c)}

C5_Unmarked(l) == Strip(RemovePrefix(Strip(l), <<"-", " ">>))

C5_IsAction(l) == EndsWith(l, <<"!">>) \/ StartsWith(LowerStr(l), TodoPrefix)

C5_Expected ==
    LET IsNonBlank(l) == Strip(l) # <<>>
        lines == SelectSeq(SplitLines(text), IsNonBlank)
    IN  SelectSeq([i \in 1..Len(lines) |-> C5_Unmarked(lines[i])], C5_IsAction)

\* C5: in the simple extractor a non-blank line is emitted if and only if,
\* after removing only a leading "- " marker, it ends with '!' or starts
\* with "todo:" (case-insensitive), and the emitted string is the line with
\* only that marker and the surrounding whitespace removed.
C5_SimpleRemovesOnlyLeadingMarker == fn = "simple" => out = C5_Expected

\* the week 2 line pass as C6 words it
C6_BulletChars == {"-", "*", "U+2022"}

C6_MarkerEnd(l) ==
    LET d == SkipWhile(l, 1, DigitChars)
    IN  IF l # <<>> /\ l[1] \in C6_BulletChars THEN 1
        ELSE IF d > 1 /\ d <= Len(l) /\ l[d] = "." THEN d
        ELSE 0

C6_StartsWithBullet(l) ==
    C6_MarkerEnd(l) > 0 /\ C6_MarkerEnd(l) < Len(l) /\ IsSpace(l[C6_MarkerEnd(l) + 1])

C6_IsActionLine(l) ==
    \/ C6_StartsWithBullet(l)
    \/ \E prefix \in KEYWORD_PREFIXES : StartsWith(LowerStr(l), prefix)
    \/ Contains(LowerStr(l), CheckboxOpen)
    \/ Contains(LowerStr(l), CheckboxTodo)

\* a leading token removed whatever its case
C6_RemoveToken(l, token) ==
    IF StartsWith(LowerStr(l), token) THEN Strip(From(l, Len(token) + 1)) ELSE l

C6_Clean(l) ==
    LET body == IF C6_StartsWithBullet(l) THEN Strip(From(l, C6_MarkerEnd(l) + 1)) ELSE l
    IN  C6_RemoveToken(C6_RemoveToken(body, CheckboxOpen), CheckboxTodo)

C6_Expected ==
    LET lines == SplitLines(text)
        stripped == [i \in 1..Len(lines) |-> Strip(lines[i])]
        accepted == SelectSeq(stripped, C6_IsActionLine)
    IN  [i \in 1..Len(accepted) |-> C6_Clean(accepted[i])]

\* C6: in the week 2 line pass a line is emitted if and only if it starts
\* with a bullet marker ('-', '*', the bullet glyph or 'N.', then
\* whitespace), starts with todo:, action: or next:, or carries '[ ]' or
\* '[todo]'; the emitted text is the line without the leading bullet marker
\* and without a leading checkbox token, matched case-insensitively.
C6_LinePassEmitsCleanedActionLines ==
    fn = "week2" /\ C6_Expected # <<>> => out = FirstOccurrences(C6_Expected)

\* the positions of the text where a hashtag starts, and the name there
C7_Starts == {i \in 1..(Len(text) - 1) : text[i] = "#" /\ IsWordChar(text[i + 1])}

C7_NameAt(i) ==
    LET e == CHOOSE j \in (i + 1)..Len(text) :
                 /\ \A m \in (i + 1)..j : IsWordChar(text[m])
                 /\ j < Len(text) => ~IsWordChar(text[j + 1])
    IN  LowerStr(SubSeq(text, i + 1, e))

C7_FirstStarts == {i \in C7_Starts : \A j \in C7_Starts : j < i => C7_NameAt(j) # C7_NameAt(i)}

\* C7: extract_hashtags returns the tokens '#' + word characters of the
\* text, without the '#', lower-cased, each name once at its first
\* occurrence, in order; the empty list when the text has no hashtag.
C7_HashtagsLowercasedFirstSeen ==
    fn = "hashtags" =>
        /\ ~raised
        /\ Len(out) = Cardinality(C7_FirstStarts)
        /\ \A i \in C7_FirstStarts :
               out[Cardinality({j \in C7_FirstStarts : j <= i})] = C7_NameAt(i)

\* extract_hashtags was called on a text that repeats a name in another case
C7_Witness ==
    /\ fn = "hashtags"
    /\ Len(out) >= 2
    /\ Cardinality(C7_Starts) > Len(out)
    /\ \E i \in C7_Starts : SubSeq(text, i + 1, i + Len(C7_NameAt(i))) # C7_NameAt(i)

\* the candidates the week 8 loop accepts, in input order
C8_IsAccepted8(c) ==
    /\ Len(c) >= 3
    /\ ~EndsWith(RStrip(c), <<"?">>)
    /\ HasAlpha(c)
    /\ \/ MatchesKeyword(c)
       \/ MatchesVerbPhrase(c)
       \/ IsExclamatory(c)
       \/ IsCapitalizedImperative(c)

C8_Candidates ==
    LET lines == SplitLines(text)
    IN  IF fn = "week2" THEN Extracted2(text)
        ELSE SelectSeq([i \in 1..Len(lines) |-> Cleaned(lines[i])], C8_IsAccepted8)

\* C8: in the deduplicating extractors (week 2, week 8) the output is the
\* sequence of accepted candidates in input order without every candidate
\* whose lowercase form an earlier candidate has: the first occurrence
\* survives as written, in the order of first appearance.
C8_FirstOccurrenceSurvivesInOrder ==
    fn \in {"week2", "week8"} => out = FirstOccurrences(C8_Candidates)

\* a deduplicating extractor dropped a later candidate that differs from the
\* survivor in case, and kept two items
C8_Witness ==
    /\ fn \in {"week2", "week8"}
    /\ Len(out) = 2
    /\ Len(C8_Candidates) = 3
    /\ \E i \in 1..3 : C8_Candidates[i] \notin Range(out)


(***************************************************************************)
(* C10: the life of a record through the week4 API                         *)
(***************************************************************************)

\* the window a list request asks for, with the defaults of the endpoint
C10_Skip(req) == IF req.skip.kind = "unset" THEN 0 ELSE req.skip.value

C10_Limit(req) == IF req.limit.kind = "unset" THEN 100 ELSE req.limit.value

\* the position of row id among the rows of the table, counted from 0
C10_Position(table, id) == Cardinality({k \in DOMAIN table : k < id})

C10_InWindow(table, id, req) ==
    /\ C10_Position(table, id) >= C10_Skip(req)
    /\ C10_Position(table, id) < C10_Skip(req) + C10_Limit(req)

C10_NoteBody(table, id) ==
    [id |-> id, title |-> table[id].title, content |-> table[id].content]

C10_ItemBody(table, id) ==
    [id |-> id, description |-> table[id].description, completed |-> table[id].completed]

\* one request on the notes, from the tables before it to the tables after
C10_NoteStep ==
    LET req == last'.req
        status == last'.status
        body == last'.body
    IN  /\ (req.op = "create_note" /\ status = 201) =>
               /\ Len(body) = 1
               /\ body[1].id \notin DOMAIN notes
               /\ body[1].id \in DOMAIN notes'
               /\ body[1] = C10_NoteBody(notes', body[1].id)
        /\ req.op = "get_note" =>
               IF req.id \in DOMAIN notes
               THEN status = 200 /\ body = <<C10_NoteBody(notes, req.id)>>
               ELSE status = 404
        /\ (req.op = "list_notes" /\ status = 200) =>
               /\ \A i \in 1..Len(body) :
                      /\ body[i].id \in DOMAIN notes
                      /\ body[i] = C10_NoteBody(notes, body[i].id)
               /\ \A id \in DOMAIN notes :
                      C10_InWindow(notes, id, req) => \E i \in 1..Len(body) : body[i].id = id
        /\ (req.op = "delete_note" /\ status = 204) =>
               req.id \in DOMAIN notes /\ req.id \notin DOMAIN notes'
        /\ \A id \in DOMAIN notes :
               ~(req.op \in {"update_note", "delete_note"} /\ req.id = id) =>
                   id \in DOMAIN notes' /\ notes'[id] = notes[id]
        /\ \A id \in DOMAIN notes' \ DOMAIN notes :
               req.op = "create_note" /\ status = 201 /\ body[1].id = id

\* one request on the action items, likewise
C10_ItemStep ==
    LET req == last'.req
        status == last'.status
        body == last'.body
    IN  /\ (req.op = "create_item" /\ status = 201) =>
               /\ Len(body) = 1
               /\ body[1].id \notin DOMAIN items
               /\ body[1].id \in DOMAIN items'
               /\ body[1] = C10_ItemBody(items', body[1].id)
        /\ req.op = "get_action_item" =>
               IF req.id \in DOMAIN items
               THEN status = 200 /\ body = <<C10_ItemBody(items, req.id)>>
               ELSE status = 404
        /\ (req.op = "list_action_items" /\ status = 200 /\ req.status.kind = "unset") =>
               /\ \A i \in 1..Len(body) :
                      /\ body[i].id \in DOMAIN items
                      /\ body[i] = C10_ItemBody(items, body[i].id)
               /\ \A id \in DOMAIN items :
                      C10_InWindow(items, id, req) => \E i \in 1..Len(body) : body[i].id = id
        /\ (req.op = "delete_item" /\ status = 204) =>
               req.id \in DOMAIN items /\ req.id \notin DOMAIN items'
        /\ \A id \in DOMAIN items :
               ~(req.op \in {"update_item", "delete_item", "complete_item"} /\ req.id = id) =>
                   id \in DOMAIN items' /\ items'[id] = items[id]
        /\ \A id \in DOMAIN items' \ DOMAIN items :
               req.op = "create_item" /\ status = 201 /\ body[1].id = id

\* C10: a created note (action item) is stored as the 201 response shows it;
\* GET of an id answers 200 with the stored fields while the record is
\* stored and 404 otherwise; the list shows every stored record inside the
\* requested window (by default the first 100) with its stored fields and no
\* other record; a 204 DELETE removes the record, so the next GET of that id
\* is a 404 and the list no longer shows it; and no request changes or
\* removes a stored record other than an update or delete of that very id.
C10_RecordLifecycle == [][C10_NoteStep /\ C10_ItemStep]_vars

\* note 1 was created, note 2 was created after it and is still stored,
\* note 1 was deleted, and a GET of note 1 has just answered 404
C10_Witness ==
    /\ last.req.op = "get_note"
    /\ last.req.id = 1
    /\ last.status = 404
    /\ DOMAIN notes = {2}


(***************************************************************************)
(* C11: requests on an id that is not stored                               *)
(***************************************************************************)

\* the request addresses one note (action item) by id and that id is not stored
C11_MissingNote ==
    /\ last'.req.op \in {"get_note", "update_note", "delete_note"}
    /\ last'.req.id \notin DOMAIN notes

C11_MissingItem ==
    /\ last'.req.op \in {"get_action_item", "update_item", "delete_item", "complete_item"}
    /\ last'.req.id \notin DOMAIN items

\* a supplied string that is empty or all whitespace
C11_Blank(f) ==
    f.kind = "str" /\ \A i \in 1..Len(f.value) : f.value[i] \in WhitespaceChars

\* the body of the request is rejected by the schema of its endpoint
C11_BodyRejected(req) ==
    \/ C11_Blank(req.title)
    \/ C11_Blank(req.content)
    \/ C11_Blank(req.description)
    \/ (req.title.kind = "str" /\ Len(req.title.value) > 200)

\* C11 as stated: get, update, delete and complete on an id that does not
\* exist are answered 404 and leave the stored notes and action items as
\* they were.
C11_MissingIdIs404 ==
    [][(C11_MissingNote \/ C11_MissingItem) =>
           /\ last'.status = 404
           /\ notes' = notes
           /\ items' = items]_vars

\* C11 amended: such a request is answered 404 when its body passes the
\* schema and 422 when it does not (the body is validated before the id is
\* looked up); either way the stored notes and action items stay as they
\* were.
C11_MissingIdIs404WhenBodyValid ==
    [][(C11_MissingNote \/ C11_MissingItem) =>
           /\ last'.status = IF C11_BodyRejected(last'.req) THEN 422 ELSE 404
           /\ notes' = notes
           /\ items' = items]_vars

\* an update that supplies a title for a note id that is not stored, while
\* another note is stored, has just been answered 404
C11_Witness ==
    /\ last.req.op = "update_note"
    /\ last.req.title.kind = "str"
    /\ last.req.id \notin DOMAIN notes
    /\ DOMAIN notes # {}
    /\ last.status = 404

(***************************************************************************)
(* C20: the status filter of the action item list                          *)
(***************************************************************************)

\* the stored items a status filter selects
C20_Selected(table, status) ==
    {id \in DOMAIN table :
        /\ (status.kind = "str" /\ status.value = "pending") => ~table[id].completed
        /\ (status.kind = "str" /\ status.value = "completed") => table[id].completed}

\* the selected ids inside the window of the request
C20_Page(table, req) ==
    LET chosen == C20_Selected(table, req.status)
    IN  {id \in chosen :
            /\ Cardinality({k \in chosen : k < id}) >= C10_Skip(req)
            /\ Cardinality({k \in chosen : k < id}) < C10_Skip(req) + C10_Limit(req)}

\* the list response shows the selected items of the window, each once, in
\* id order, with their stored fields
C20_ListShowsSelected(table, response) ==
    (response.req.op = "list_action_items" /\ response.status = 200) =>
        /\ {response.body[i].id : i \in 1..Len(response.body)} = C20_Page(table, response.req)
        /\ \A i, j \in 1..Len(response.body) : i < j => response.body[i].id < response.body[j].id
        /\ \A i \in 1..Len(response.body) :
               response.body[i] = C10_ItemBody(table, response.body[i].id)

\* the request is a successful write of the completed flag of item id
C20_Completes(id) ==
    last'.req.op = "complete_item" /\ last'.req.id = id /\ last'.status = 200

C20_SetsFlag(id) ==
    /\ last'.req.op = "update_item" /\ last'.req.id = id /\ last'.status = 200
    /\ last'.req.completed.kind = "bool"

\* the completed flag of every stored item after one request
C20_FlagStep ==
    \A id \in DOMAIN items' :
        items'[id].completed =
            IF C20_Completes(id) THEN TRUE
            ELSE IF C20_SetsFlag(id) THEN last'.req.completed.value
            ELSE IF id \in DOMAIN items THEN items[id].completed
            ELSE FALSE

\* C20: listing with status 'pending' shows exactly the stored items whose
\* flag is false, 'completed' exactly those whose flag is true, an absent or
\* other status all items, each within the pagination window; and an item's
\* flag is false when it is created, becomes true by complete or by an update
\* with completed=true, false by an update with completed=false, and is
\* changed by nothing else.
C20_StatusFilter == [][C20_ListShowsSelected(items', last') /\ C20_FlagStep]_vars

\* two items are stored, the first completed and the second pending, and a
\* list with status 'pending' has just shown the second only
C20_Witness ==
    /\ last.req.op = "list_action_items"
    /\ last.req.status = Name("pending")
    /\ last.status = 200
    /\ DOMAIN items = {1, 2}
    /\ items[1].completed /\ ~items[2].completed
    /\ Len(last.body) = 1
    /\ last.body[1].id = 2

(***************************************************************************)
(* C12: partial updates (week4 PUT, week8 PATCH)                           *)
(***************************************************************************)

\* a body field that was supplied leaves the column at the supplied value,
\* one that was not supplied leaves the column as it was
C12_FieldApplied(f, old, new, supplied) ==
    IF f.kind = "unset" THEN new = old ELSE new = supplied

\* every row of the table but the one with this id is as it was
C12_OthersKept(old, new, id) ==
    /\ DOMAIN new = DOMAIN old
    /\ \A k \in DOMAIN old \ {id} : new[k] = old[k]

C12_NoteUpdated ==
    LET req == last'.req
    IN  (req.op = "update_note" /\ last'.status = 200) =>
            /\ C12_OthersKept(notes, notes', req.id)
            /\ items' = items
            /\ C12_FieldApplied(req.title, notes[req.id].title, notes'[req.id].title,
                                Strip(req.title.value))
            /\ C12_FieldApplied(req.content, notes[req.id].content, notes'[req.id].content,
                                Strip(req.content.value))

C12_ItemUpdated ==
    LET req == last'.req
    IN  (req.op = "update_item" /\ last'.status = 200) =>
            /\ C12_OthersKept(items, items', req.id)
            /\ notes' = notes
            /\ C12_FieldApplied(req.description, items[req.id].description,
                                items'[req.id].description, Strip(req.description.value))
            /\ C12_FieldApplied(req.completed, items[req.id].completed,
                                items'[req.id].completed, req.completed.value)

C12_EmptyBody4 ==
    LET req == last'.req
    IN  /\ (req.op = "update_note" /\ req.id \in DOMAIN notes
            /\ req.title.kind = "unset" /\ req.content.kind = "unset") =>
                /\ last'.status = 200
                /\ notes' = notes /\ items' = items
                /\ last'.body = <<NoteRead(req.id, notes[req.id])>>
        /\ (req.op = "update_item" /\ req.id \in DOMAIN items
            /\ req.description.kind = "unset" /\ req.completed.kind = "unset") =>
                /\ last'.status = 200
                /\ notes' = notes /\ items' = items
                /\ last'.body = <<ActionItemRead(req.id, items[req.id])>>

\* the value a supplied name leaves in the name column
C12_NameApplied(f, old, new) == IF f.kind = "str" THEN new = f.value ELSE new = old

C12_Patched(router, extra, nullIsSupplied) ==
    LET req == last'.req
    IN  (req.op = "patch" /\ req.router = router /\ last'.status = 200) =>
            /\ C12_OthersKept(week8[router], week8'[router], req.id)
            /\ \A other \in {"categories", "tags"} \ {router} : week8'[other] = week8[other]
            /\ C12_NameApplied(req.name, week8[router][req.id].name,
                               week8'[router][req.id].name)
            /\ IF req.extra.kind = "str" \/ (nullIsSupplied /\ req.extra.kind = "null")
               THEN week8'[router][req.id][extra] =
                        (IF req.extra.kind = "str" THEN req.extra ELSE Null)
               ELSE week8'[router][req.id][extra] = week8[router][req.id][extra]
            /\ week8'[router][req.id].created_at = week8[router][req.id].created_at

C12_EmptyBody8 ==
    LET req == last'.req
    IN  (req.op = "patch" /\ req.id \in DOMAIN week8[req.router]
         /\ req.name.kind = "unset" /\ req.extra.kind = "unset") =>
            /\ last'.status = 200
            /\ week8' = week8
            /\ last'.body[1].id = req.id
            /\ last'.body[1].name = week8[req.router][req.id].name

\* C12 (week4 half): a successful PUT /notes/{id} or PUT /action-items/{id}
\* leaves every supplied field at its supplied (stripped) value and every
\* other field and record as it was; an empty body answers 200 with the
\* current record and changes nothing.
C12_PartialUpdateWeek4 == [][C12_NoteUpdated /\ C12_ItemUpdated /\ C12_EmptyBody4]_vars

C13_SameName(a, b) == LowerStr(a) = LowerStr(b)

C13_Unique(table) ==
    \A i, j \in DOMAIN table : i # j => ~C13_SameName(table[i].name, table[j].name)

\* the name a request asks a record to take, <<>> when it asks for none
C13_AskedName(req) ==
    IF req.op \in {"create", "put"} THEN req.name
    ELSE IF req.op = "patch" /\ req.name.kind = "str" THEN req.name.value
    ELSE <<>>

\* a different record of the router's table already has the asked name
C13_TakenByOther(req) ==
    \E id \in DOMAIN week8[req.router] :
        /\ req.op = "create" \/ id # req.id
        /\ C13_SameName(week8[req.router][id].name, C13_AskedName(req))

C13_DuplicateRefused ==
    LET req == last'.req
    IN  (/\ req.op \in {"create", "put", "patch"}
         /\ C13_AskedName(req) # <<>>
         /\ req.op = "create" \/ req.id \in DOMAIN week8[req.router]
         /\ C13_TakenByOther(req)) =>
            last'.status = HTTP_409_CONFLICT /\ week8' = week8

C13_OwnNameAccepted ==
    LET req == last'.req
    IN  (/\ req.op \in {"put", "patch"}
         /\ req.id \in DOMAIN week8[req.router]
         /\ C13_AskedName(req) = week8[req.router][req.id].name) =>
            last'.status = 200

\* C13 (invariant part): no two stored categories, and no two stored tags,
\* have names that are equal ignoring case.
C13_NoTwoNamesEqualIgnoringCase == C13_Unique(week8.categories) /\ C13_Unique(week8.tags)

\* C13 (refusal part): creating a record with, or renaming a record to, a
\* name another record already has (ignoring case) is answered 409 and
\* changes nothing.
C13_DuplicateIs409 == [][C13_DuplicateRefused]_vars

\* C13: after any sequence of create, PATCH, PUT and DELETE requests no two
\* stored categories (tags) have names equal ignoring case; a create or
\* rename to a name used by a different record is answered 409 and changes
\* nothing; a PATCH or PUT that keeps the record's own name is accepted.
C13_UniqueNames ==
    [][/\ C13_Unique(week8'.categories) /\ C13_Unique(week8'.tags)
       /\ C13_DuplicateRefused
       /\ C13_OwnNameAccepted]_vars

(***************************************************************************)
(* C17: week7 pagination                                                   *)
(***************************************************************************)

\* the whole result of a list request: the same filter and sort, no window
C17_Full(req) ==
    IF req.router = "notes"
    THEN list_notes7(week7, req.query.q, 0, 200, req.query.sort).body
    ELSE IF req.router = "action_items"
    THEN list_items7(week7, req.query.completed, req.query.note_id, 0, 200,
                     req.query.sort).body
    ELSE IF req.router = "categories"
    THEN list_categories(week7, 0, 200, req.query.sort).body
    ELSE list_tags(week7, 0, 200, req.query.sort).body

C17_Window(req, response) ==
    LET s == QueryValue(req.query.skip, 0)
        l == QueryValue(req.query.limit, 50)
        full == C17_Full(req)
        n == Len(full)
    IN  /\ response.status = 200
        /\ Len(response.body) = Min({l, Max({0, n - s})})
        /\ \A i \in 1..Len(response.body) : response.body[i] = full[s + i]

\* sort names a column of the model or no attribute of it
C17_ColumnOrFallback(req) ==
    LET field == sort_field(req.query.sort)
    IN  field \notin ClassAttributes

\* C17 (included routers): for the notes and action-items list endpoints and
\* a sort that names a column or no attribute, the response to skip=s,
\* limit=l holds the records at positions s .. s+l-1 of the whole sorted
\* result, min(l, max(0, N-s)) of them.
C17_IncludedRoutersPaginate ==
    [][(/\ last'.req.op = "list"
        /\ last'.req.router \in IncludedRouters7
        /\ PaginationValid8(last'.req.query)
        /\ C17_ColumnOrFallback(last'.req)) => C17_Window(last'.req, last')]_vars

\* C17: in the week7 list endpoints (notes, action items, categories, tags)
\* the request with skip=s and limit=l returns exactly the records at
\* positions s .. s+l-1 of the full sorted result, min(l, max(0, N-s))
\* records out of N.
C17_Pagination ==
    [][(/\ last'.req.op = "list"
        /\ PaginationValid8(last'.req.query)) => C17_Window(last'.req, last')]_vars

\* the ids of the page (skip, limit) of the notes sorted by sort
C17_NotePage(skip, limit, sort) ==
    LET body == list_notes7(week7, Unset, skip, limit, sort).body
    IN  {body[i].id : i \in 1..Len(body)}

\* C17 (pages): the pages (skip=0, limit=k) and (skip=k, limit=k) of the notes
\* are disjoint and no record of the second sorts before a record of the
\* first.
C17_PagesDisjoint ==
    \A k \in 1..2 : \A sort \in {Sort(1, "created_at"), Sort(0, "title"), Sort(1, "title")} :
        LET first == C17_NotePage(0, k, sort)
            second == C17_NotePage(k, k, sort)
        IN  /\ first \cap second = {}
            /\ \A a \in first : \A b \in second :
                  ~KeyLess(ColumnKey(week7.notes, IF SortDescending(sort) THEN a ELSE b,
                                     sort_field(sort)),
                           ColumnKey(week7.notes, IF SortDescending(sort) THEN b ELSE a,
                                     sort_field(sort)))

(***************************************************************************)
(* C18: the sort parameter of the week7 and week8 list endpoints           *)
(***************************************************************************)

C18_Columns(router) ==
    IF router = "notes" THEN NoteColumns7
    ELSE IF router = "action_items" THEN ActionItemColumns7
    ELSE IF router = "categories" THEN CategoryColumns
    ELSE TagColumns

\* the column and direction the claim gives a sort value
C18_Field(req) ==
    IF sort_field(req.query.sort) \in C18_Columns(req.router)
    THEN sort_field(req.query.sort) ELSE "created_at"

C18_Descending(req) ==
    IF sort_field(req.query.sort) \in C18_Columns(req.router)
    THEN req.query.sort.dashes > 0 ELSE TRUE

\* the rows the request's filter selects
C18_Selected(db, req) ==
    IF req.router = "notes" THEN NotesMatching7(db.notes, req.query.q)
    ELSE IF req.router = "action_items"
    THEN ItemsMatching7(db.action_items, req.query.completed, req.query.note_id)
    ELSE DOMAIN db[req.router]

\* the response is 200 and lists selected rows, each once, as many as the
\* window allows, in the order of the claim's column and direction
C18_InOrder(db, req, response) ==
    LET table == db[req.router]
        body == response.body
        n == Cardinality(C18_Selected(db, req))
        key(i) == ColumnKey(table, body[i].id, C18_Field(req))
    IN  /\ response.status = 200
        /\ Len(body) = Min({QueryValue(req.query.limit, 50),
                            Max({0, n - QueryValue(req.query.skip, 0)})})
        /\ \A i \in 1..Len(body) : body[i].id \in C18_Selected(db, req)
        /\ \A i, j \in 1..Len(body) : i < j =>
              /\ body[i].id # body[j].id
              /\ IF C18_Descending(req) THEN ~KeyLess(key(i), key(j))
                 ELSE ~KeyLess(key(j), key(i))

C18_Step(db) ==
    (last'.req.op = "list" /\ PaginationValid8(last'.req.query)) =>
        C18_InOrder(db, last'.req, last')

\* C18 (sorts without a class attribute): for a sort that names a column or
\* no attribute of the model, the included week7 list endpoints answer 200
\* in the order of that column (ascending, or descending with '-'), or of
\* created_at descending when the name is no attribute.
C18_ColumnSortWeek7 ==
    [][(last'.req.op = "list" /\ last'.req.router \in IncludedRouters7
        /\ C17_ColumnOrFallback(last'.req)) => C18_Step(week7)]_vars

\* C18 (week8, sorts without a class attribute)
C18_ColumnSortWeek8 ==
    [][(last'.req.op = "list" /\ C17_ColumnOrFallback(last'.req)) => C18_Step(week8)]_vars

\* C18 (week8): as C18_Sort, for the categories and tags of week8
C18_SortWeek8 == [][C18_Step(week8)]_vars

\* C18: in the week7 list endpoints the application includes, a sort whose field name (the leading
\* dashes removed) is a column of the model sorts by that column, ascending
\* without the dash and descending with it; any other sort value falls
\* back to created_at descending, and the request succeeds with 200.
C18_Sort == [][last'.req.router \in IncludedRouters7 => C18_Step(week7)]_vars

(***************************************************************************)
(* C19: week7 notes and their category                                     *)
(***************************************************************************)

C19_StoredWithCategory ==
    LET req == last'.req
    IN  (/\ req.op = "create" /\ req.router = "notes"
         /\ req.category_id.kind = "int" /\ last'.status = HTTP_201_CREATED) =>
            /\ last'.body[1].category_id = req.category_id
            /\ week7'.notes[last'.body[1].id].category_id = req.category_id

C19_FilteredByCategory ==
    LET req == last'.req
    IN  (/\ req.op = "list" /\ req.router = "notes"
         /\ req.query.category_id.kind = "int" /\ last'.status = 200) =>
            \A i \in 1..Len(last'.body) : last'.body[i].category_id = req.query.category_id

\* C19 (filter part): GET /notes/?category_id=c returns only notes whose
\* category_id equals c.
C19_ListOnlyCategory == [][C19_FilteredByCategory]_vars

\* C19: a note created through POST /notes/ with a category_id is stored with
\* that category_id, and GET /notes/?category_id=c returns only notes whose
\* category_id equals c.
C19_CategoryOfNote == [][C19_StoredWithCategory /\ C19_FilteredByCategory]_vars

(***************************************************************************)
(* week5: tags, the tags of a note, and the search.                        *)
(***************************************************************************)

C14_Unique(tags) ==
    \A a \in DOMAIN tags, b \in DOMAIN tags : tags[a].name = tags[b].name => a = b

C14_Refused(req) ==
    \/ Strip(req.name) = <<>>
    \/ \E id \in DOMAIN week5.tags : week5.tags[id].name = Strip(req.name)

C14_Listed(db) == {list_tags5(db).body[i].id : i \in 1..Len(list_tags5(db).body)}

C14_Create ==
    /\ C14_Refused(last'.req) => last'.status = 400 /\ week5' = week5
    /\ ~C14_Refused(last'.req) =>
          /\ last'.status = 201
          /\ \E id \in DOMAIN week5'.tags \ DOMAIN week5.tags :
                week5'.tags[id].name = Strip(last'.req.name)

C14_Delete ==
    /\ last'.req.id \in DOMAIN week5.tags =>
          /\ last'.status = 204
          /\ last'.req.id \notin C14_Listed(week5')
          /\ C14_Listed(week5') = C14_Listed(week5) \ {last'.req.id}
          /\ delete_tag5(week5', last'.req.id).status = 404
    /\ last'.req.id \notin DOMAIN week5.tags => last'.status = 404 /\ week5' = week5

\* C14: no two stored tags of week5 have the same name; a create whose
\* stripped name is empty or is the name of a stored tag answers 400 and
\* stores nothing; a delete of a stored tag answers 204 and takes it off the
\* list, and a delete of that id right after it, like every delete of an id
\* that is not stored, answers 404.
C14_TagNamesUnique ==
    [][/\ C14_Unique(week5'.tags)
       /\ last'.req.op = "create_tag" => C14_Create
       /\ last'.req.op = "delete_tag" => C14_Delete]_vars

\* a create of the name of a stored tag, padded with blanks, was refused
\* while two tags are stored
C14_Witness ==
    /\ last.req.op = "create_tag"
    /\ last.status = 400
    /\ Strip(last.req.name) # <<>>
    /\ last.req.name # Strip(last.req.name)
    /\ Cardinality(DOMAIN week5.tags) = 2

C15_TagSet(db, note_id) == {db.notes[note_id].tags[i] : i \in 1..Len(db.notes[note_id].tags)}

C15_Missing(req) == req.note_id \notin DOMAIN week5.notes \/ req.tag_id \notin DOMAIN week5.tags

C15_Others(req) ==
    /\ week5'.tags = week5.tags
    /\ \A n \in DOMAIN week5.notes \ {req.note_id} : week5'.notes[n] = week5.notes[n]
    /\ DOMAIN week5'.notes = DOMAIN week5.notes

C15_Attach(req) ==
    IF C15_Missing(req) THEN last'.status = 404 /\ week5' = week5
    ELSE IF req.tag_id \in C15_TagSet(week5, req.note_id)
         THEN last'.status = 400 /\ week5' = week5
    ELSE /\ last'.status = 200
         /\ C15_TagSet(week5', req.note_id) = C15_TagSet(week5, req.note_id) \cup {req.tag_id}
         /\ C15_Others(req)

C15_Detach(req) ==
    IF C15_Missing(req) THEN last'.status = 404 /\ week5' = week5
    ELSE IF req.tag_id \notin C15_TagSet(week5, req.note_id)
         THEN last'.status = 400 /\ week5' = week5
    ELSE /\ last'.status = 200
         /\ C15_TagSet(week5', req.note_id) = C15_TagSet(week5, req.note_id) \ {req.tag_id}
         /\ C15_Others(req)

C15_AtMostOnce(db) ==
    \A n \in DOMAIN db.notes :
        \A i \in 1..Len(db.notes[n].tags), j \in 1..Len(db.notes[n].tags) :
            db.notes[n].tags[i] = db.notes[n].tags[j] => i = j

\* an attach that succeeds, followed by the detach of the same tag
C15_RoundTrip(db) ==
    \A n \in DOMAIN db.notes, t \in DOMAIN db.tags :
        attach_tag_to_note(db, n, t).status = 200 =>
            /\ detach_tag_from_note(attach_tag_to_note(db, n, t).db, n, t).status = 200
            /\ C15_TagSet(detach_tag_from_note(attach_tag_to_note(db, n, t).db, n, t).db, n)
                  = C15_TagSet(db, n)

\* C15: an attach answers 404 for a missing note or tag, 400 for a tag the
\* note has already, and adds the tag otherwise; a detach answers 404 for a
\* missing note or tag, 400 for a tag the note has not, and removes the tag
\* otherwise; no note has a tag twice, and a detach after an attach leaves
\* the note with the tags it had.
C15_AttachDetach ==
    [][/\ last'.req.op = "attach" => C15_Attach(last'.req)
       /\ last'.req.op = "detach" => C15_Detach(last'.req)
       /\ week5' # week5 => C15_AtMostOnce(week5') /\ C15_RoundTrip(week5')]_vars

\* the attach of a tag the note has already was refused, on a note with two
\* tags
C15_Witness ==
    /\ last.req.op = "attach"
    /\ last.status = 400
    /\ last.req.note_id \in DOMAIN week5.notes
    /\ Len(week5.notes[last.req.note_id].tags) = 2
    /\ last.req.tag_id = 1

\* the notes the q and tag_id filters keep: q, stripped, occurs in the
\* title or the content whatever the case of the letters
C16_Matching(db, query) ==
    {n \in DOMAIN db.notes :
        /\ (query.q.kind = "str" /\ Strip(query.q.value) # <<>>) =>
              \/ Contains(LowerStr(db.notes[n].title), LowerStr(Strip(query.q.value)))
              \/ Contains(LowerStr(db.notes[n].content), LowerStr(Strip(query.q.value)))
        /\ query.tag_id.kind = "int" =>
              \E i \in 1..Len(db.notes[n].tags) : db.notes[n].tags[i] = query.tag_id.value}

\* the whole result of a query, as its first page of 100
C16_Whole(db, query) ==
    search_notes5(db, query.q, query.tag_id, 1, 100, query.sort).body.items

C16_InOrder(rows, sort) ==
    \A i \in 1..(Len(rows) - 1) :
        IF sort = "title_asc" THEN ~StrLess(rows[i + 1].title, rows[i].title)
        ELSE rows[i].id > rows[i + 1].id

C16_Page(db, query, body) ==
    LET whole == C16_Whole(db, query)
        matching == C16_Matching(db, query)
    IN  /\ body.total = Cardinality(matching)
        /\ {whole[i].id : i \in 1..Len(whole)} = matching
        /\ Len(whole) = body.total
        /\ C16_InOrder(whole, query.sort)
        /\ Len(body.items)
              = Max({0, Min({query.page_size,
                             body.total - (query.page - 1) * query.page_size})})
        /\ \A i \in 1..Len(body.items) :
              body.items[i] = whole[(query.page - 1) * query.page_size + i]
        /\ (query.page - 1) * query.page_size >= body.total => body.items = <<>>

C16_WitnessPastEnd ==
    /\ last.req.op = "search"
    /\ last.status = 200
    /\ last.req.query.page = 3
    /\ last.body.total = 1
    /\ last.body.items = <<>>

(***************************************************************************)
(* week3: the daily issue.                                                 *)
(***************************************************************************)

C21_Daily(issues) == {n \in 1..Len(issues) : issues[n].title = get_today_title}

\* the step in which get_or_create_daily_issue has the answer of its search
C21_Searched(c) == callers[c].pc = "find" /\ callers'[c].pc \notin {"find", "raised"}

\* the call goes on with an issue that was there, and sends no create request
C21_ReturnsExisting(c) ==
    /\ callers'[c].pc = AfterIssue(callers[c].tool)
    /\ callers'[c].issue \in C21_Daily(github.issues)
    /\ callers'[c].sent = 0

\* the step in which the create request is answered
C21_Created(c) == callers[c].pc = "create" /\ callers'[c].pc \notin {"create", "raised"}

\* one create request with today's title and the label daily, whose issue
\* is returned
C21_ReturnsCreated(c) ==
    /\ callers'[c].sent = 1
    /\ Len(github'.issues) = Len(github.issues) + 1
    /\ callers'[c].issue = Len(github'.issues)
    /\ github'.issues[callers'[c].issue] = [title |-> get_today_title, labels |-> <<"daily">>]
    /\ callers'[c].pc = AfterIssue(callers[c].tool)

C21_Call(c, has) ==
    /\ (C21_Searched(c) /\ has) => C21_ReturnsExisting(c)
    /\ (C21_Searched(c) /\ ~has) => callers'[c].pc = "create"
    /\ C21_Created(c) => C21_ReturnsCreated(c)

\* C21: a call in a repository that has an issue with today's title goes on
\* with that issue and sends no create request, a call in a repository that
\* has none sends one create request with today's title and the label daily
\* and goes on with the created issue; calls made one after the other leave
\* at most one issue with today's title.
C21_DailyIssue ==
    [][/\ C21_Call(1, C21_Daily(github.issues) # {})
       /\ Cardinality(C21_Daily(github'.issues)) <= 1]_vars

\* the same, for a repository whose issue with today's title is among the
\* PER_PAGE issues created last
C21_DailyIssueOnFirstPage ==
    [][/\ C21_Call(1, find_issue_by_title(github.issues, get_today_title) # 0)
       /\ (C21_Searched(1) /\ C21_Daily(github.issues) # {}
              /\ find_issue_by_title(github.issues, get_today_title) = 0)
             => Len(github.issues) - Max(C21_Daily(github.issues)) >= PER_PAGE]_vars

\* a second issue with today's title
C21_TwoDaily == Cardinality(C21_Daily(github.issues)) = 2

\* C26: two callers whose search and create requests interleave create at
\* most one issue with today's title.
C26_OneDailyIssue == Cardinality(C21_Daily(github.issues)) <= 1

\* a caller that searched before the other one created sends no create
\* request when the other one's issue is there by the time it searched
C26_SearchSeesCreated ==
    [][\A c \in Callers :
          (C21_Searched(c) /\ C21_Daily(github.issues) # {}) => C21_ReturnsExisting(c)]_vars

(***************************************************************************)
(* week2: the action-items router.                                         *)
(***************************************************************************)

\* C22: marking done an action item whose id is not stored is answered 404
\* and changes no stored action item.
C22_MarkMissingDone ==
    [][(last'.req.op = "mark_done" /\ last'.req.id \notin DOMAIN week2.action_items) =>
          (last'.status = 404 /\ week2'.action_items = week2.action_items)]_vars

\* the half of it that is about the stored rows
C22_MissingChangesNothing ==
    [][(last'.req.op = "mark_done" /\ last'.req.id \notin DOMAIN week2.action_items) =>
          week2' = week2]_vars

\* an id that is not stored was marked done and the answer was 200
C22_MissingAnswered200 ==
    /\ last.req.op = "mark_done"
    /\ last.req.id \notin DOMAIN week2.action_items
    /\ last.status = 200

C30_Request == last'.req.op = "extract_llm" /\ last'.req.save_note

\* the i-th id returned is the id of the new row with the i-th text, and
\* every new row has the id of the new note
C30_Stored ==
    /\ DOMAIN week2'.notes \ DOMAIN week2.notes = {last'.body.note_id.value}
    /\ week2'.notes[last'.body.note_id.value].content = last'.req.text
    /\ Len(last'.body.items) = Len(last'.req.answer.items)
    /\ DOMAIN week2'.action_items \ DOMAIN week2.action_items
          = {last'.body.items[i].id : i \in 1..Len(last'.body.items)}
    /\ \A i \in 1..Len(last'.body.items) :
          /\ last'.body.items[i].text = last'.req.answer.items[i]
          /\ week2'.action_items[last'.body.items[i].id].text = last'.req.answer.items[i]
          /\ week2'.action_items[last'.body.items[i].id].note_id = last'.body.note_id
    /\ \A i \in 1..Len(last'.body.items), j \in 1..Len(last'.body.items) :
          last'.body.items[i].id = last'.body.items[j].id => i = j

\* C30: an extract-llm request with save_note that ends in an error leaves
\* no note and no action item of its own; one that succeeds returns as i-th
\* id the id of the row with the i-th text, all rows with the new note's id.
C30_AllOrNothing ==
    [][C30_Request =>
          /\ last'.status # 200 => week2' = week2
          /\ last'.status = 200 => C30_Stored]_vars

\* the half of it that is about the requests that succeed
C30_SuccessStored == [][(C30_Request /\ last'.status = 200) => C30_Stored]_vars

\* an error never leaves action items behind
C30_ErrorLeavesNoItems ==
    [][(C30_Request /\ last'.status # 200) => week2'.action_items = week2.action_items]_vars

\* a request answered 422 for an answer that is no JSON, its note stored
C30_NoteLeftBehind ==
    /\ last.req.op = "extract_llm"
    /\ last.req.save_note
    /\ last.status = 422
    /\ last.req.text # <<>>
    /\ \E n \in DOMAIN week2.notes : week2.notes[n].content = last.req.text

(***************************************************************************)
(* week2: the fallback of the extractor.                                   *)
(***************************************************************************)

\* the line pass accepts some line of the text
C23_LineAccepted(t) ==
    \E i \in 1..Len(SplitLines(t)) :
        Strip(SplitLines(t)[i]) # <<>> /\ is_action_line(Strip(SplitLines(t)[i]))

\* the sentences of the text: its pieces between the whitespace that
\* follows '.', '!' or '?', stripped, the empty ones left out
C23_Sentences(t) ==
    {Strip(SplitSentences(Strip(t))[i]) : i \in 1..Len(SplitSentences(Strip(t)))} \ {<<>>}

\* the first run of letters and apostrophes of the sentence is, in lower
\* case, an imperative starter
C23_FirstWordImperative(s) ==
    \E a \in 1..Len(s), b \in 1..Len(s) :
        /\ a <= b
        /\ \A i \in 1..(a - 1) : s[i] \notin WordLetterChars
        /\ \A i \in a..b : s[i] \in WordLetterChars
        /\ b = Len(s) \/ s[b + 1] \notin WordLetterChars
        /\ LowerStr(SubSeq(s, a, b)) \in imperative_starters

C23_Items == {out[k] : k \in 1..Len(out)}

\* C23: the extractor of week2 returns sentences if and only if the line
\* pass accepted no line; then it returns the sentences whose first word is,
\* whatever its case, an imperative starter, and no other sentence.
C23_FallbackOnlyWhenNoLine ==
    fn = "week2" =>
        /\ ~raised
        /\ C23_LineAccepted(text) => out = Dedup(LinePass(SplitLines(text), 1), 1, {})
        /\ ~C23_LineAccepted(text) =>
              /\ C23_Items \subseteq C23_Sentences(text)
              /\ \A s \in C23_Sentences(text) :
                    C23_FirstWordImperative(s) <=>
                        \E k \in 1..Len(out) : LowerStr(out[k]) = LowerStr(s)

\* a text without an accepted line, of three sentences of which the
\* fallback kept two
C23_Witness ==
    /\ fn = "week2"
    /\ ~C23_LineAccepted(text)
    /\ Cardinality(C23_Sentences(text)) = 3
    /\ Len(out) = 2

\* a text with an accepted line and a sentence that starts with an
\* imperative starter, which is not returned
C23_WitnessNoFallback ==
    /\ fn = "week2"
    /\ C23_LineAccepted(text)
    /\ \E s \in C23_Sentences(text) : C23_FirstWordImperative(s) /\ s \notin C23_Items

(***************************************************************************)
(* week8: the extractor.                                                   *)
(***************************************************************************)

\* the bullet markers of the claim
C24_AsciiMarkers == {<<"-">>, <<"*">>, <<"1", ".">>, <<"1", "2", ")">>}

C24_Markers == C24_AsciiMarkers \cup {<<"U+2022">>}

\* a text of one line that is stripped and does not begin with a marker
C24_Plain(t) ==
    /\ t # <<>>
    /\ \A i \in 1..Len(t) : t[i] \notin LineBreakChars
    /\ Strip(t) = t
    /\ Cleaned(t) = t
    /\ t[1] # "U+2022"

\* the line "<marker> X" is classified as the line X is, and yields X
C24_SameAs(markers) ==
    (fn = "week8" /\ C24_Plain(text)) =>
        /\ out \in {<<>>, <<text>>}
        /\ \A marker \in markers : ExtractWeek8(marker \o <<" ">> \o text).value = out

\* C24: for every text X the lines "<marker> X" and "X" are classified
\* alike by the week8 extractor and, when accepted, both yield the item X,
\* the marker being '-', '*', the bullet glyph or an ordinal "N." or "N)".
C24_MarkerRemoved == C24_SameAs(C24_Markers)

\* the same for the markers '-', '*', "N." and "N)"
C24_AsciiMarkerRemoved == C24_SameAs(C24_AsciiMarkers)

\* an accepted line that is rejected behind the bullet glyph
C24_GlyphKept ==
    /\ fn = "week8"
    /\ C24_Plain(text)
    /\ out = <<text>>
    /\ ExtractWeek8(<<"U+2022", " ">> \o text).value = <<>>

\* one turn of the loop of the extractor without its rule 4
C27_LineStepWithoutRule4(acc, line) ==
    LET cleaned == Cleaned(line)
        normalized == Strip(LowerStr(cleaned))
        fresh == normalized \notin acc.seen_items
        emit == [results |-> Append(acc.results, cleaned),
                 seen_items |-> acc.seen_items \cup {normalized}]
    IN  IF Strip(line) = <<>> THEN acc
        ELSE IF cleaned = <<>> \/ Len(cleaned) < 3 THEN acc
        ELSE IF EndsWith(RStrip(cleaned), <<"?">>) THEN acc
        ELSE IF ~HasAlpha(cleaned) THEN acc
        ELSE IF MatchesKeyword(cleaned) /\ fresh THEN emit
        ELSE IF MatchesVerbPhrase(cleaned) /\ fresh THEN emit
        ELSE IF IsExclamatory(cleaned) /\ fresh THEN emit
        ELSE acc

RECURSIVE C27_LineLoopWithoutRule4(_, _, _)
C27_LineLoopWithoutRule4(lines, i, acc) ==
    IF i > Len(lines) THEN acc
    ELSE C27_LineLoopWithoutRule4(lines, i + 1, C27_LineStepWithoutRule4(acc, lines[i]))

C27_ExtractWithoutRule4(t) ==
    IF t = <<>> \/ Strip(t) = <<>> THEN <<>>
    ELSE C27_LineLoopWithoutRule4(SplitLines(t), 1,
                                  [results |-> <<>>, seen_items |-> {}]).results

\* the lines of the text that meet the conditions of rule 4
C27_Rule4Lines(t) ==
    {i \in 1..Len(SplitLines(t)) :
        /\ Cleaned(SplitLines(t)[i]) # <<>>
        /\ IsCapitalizedImperative(Cleaned(SplitLines(t)[i]))}

\* C27: the week8 extractor without its rule 4 returns what the extractor
\* returns: every line that meets the conditions of rule 4 meets those of
\* rule 2, every imperative verb being one of the verb phrases.
C27_Rule4Redundant ==
    fn = "week8" =>
        /\ out = C27_ExtractWithoutRule4(text)
        /\ \A v \in imperative_verbs : MatchesVerbPhrase(v \o <<" ", "x">>)
        /\ \A i \in C27_Rule4Lines(text) : MatchesVerbPhrase(Cleaned(SplitLines(text)[i]))

\* a text with a line that meets the conditions of rule 4 and is returned
C27_Witness ==
    /\ fn = "week8"
    /\ \E i \in C27_Rule4Lines(text) :
          \E k \in 1..Len(out) : out[k] = Cleaned(SplitLines(text)[i])

(***************************************************************************)
(* week8: names that hold LIKE wildcards.                                  *)
(***************************************************************************)

\* some stored record of the router has the requested name, ignoring case
C28_NameTaken(req) ==
    \E id \in DOMAIN week8[req.router] :
        LowerStr(week8[req.router][id].name) = LowerStr(req.name)

\* C28: create_category and create_tag answer 409 only when a stored record
\* has the requested name ignoring case, '%' and '_' standing for
\* themselves, and 201 otherwise.
C28_ConflictOnlyOnEqualName ==
    [][last'.req.op = "create" =>
          /\ C28_NameTaken(last'.req) => last'.status = 409
          /\ ~C28_NameTaken(last'.req) => last'.status = 201]_vars

\* the half that holds: a name that is taken is refused
C28_TakenRefused ==
    [][(last'.req.op = "create" /\ C28_NameTaken(last'.req)) =>
          (last'.status = 409 /\ week8' = week8)]_vars

\* the name "_" was refused while no stored category is named "_"
C28_WildcardRefused ==
    /\ last.req.op = "create"
    /\ last.req.name = <<"_">>
    /\ last.status = 409
    /\ \A id \in DOMAIN week8.categories : week8.categories[id].name # <<"_">>

(***************************************************************************)
(* week4: the session of a request or block.                               *)
(***************************************************************************)

\* the step that ends a session
C25_Ends == session.pc = "open" /\ session'.pc = "closed"

\* the writes of the session are in the database after the step
C25_Committed == session'.commits = 1 /\ session'.store = session.view

\* the database is as before the session and holds none of its writes
C25_RolledBack ==
    /\ session'.commits = 0
    /\ session'.rollbacks = 1
    /\ session'.store = session.store

\* C25 as stated: the session is committed exactly when the handler or
\* block finishes without raising; when it raises, the session is rolled
\* back, nothing written is persisted and the exception is raised again;
\* the session is closed exactly once either way.
C25_CommitIffNoRaise ==
    [][C25_Ends =>
          /\ C25_Committed <=> session'.block_exc = ""
          /\ session'.block_exc # "" =>
                 (C25_RolledBack /\ session'.exc = session'.block_exc)
          /\ session'.closes = 1]_vars

\* C25 amended: the session is committed exactly when the handler or block
\* finishes without raising and session.commit() does not raise either;
\* when either raises, the session is rolled back, nothing written is
\* persisted and that exception is raised again; the session is closed
\* exactly once in every case.
C25_CommitIffNothingRaised ==
    [][C25_Ends =>
          /\ C25_Committed <=> session'.exc = ""
          /\ session'.block_exc # "" => session'.exc = session'.block_exc
          /\ session'.exc # "" => C25_RolledBack
          /\ session'.exc = "" => session'.rollbacks = 0
          /\ session'.closes = 1
          /\ session'.view = session'.store]_vars

\* a handler that had written raised, and its writes are gone
C25_Witness ==
    /\ session.pc = "closed"
    /\ session.via = "get_db"
    /\ session.block_exc = "Exception"
    /\ session.wrote
    /\ session.commits = 0
    /\ session.rollbacks = 1
    /\ session.closes = 1
    /\ session.store = {1}

\* a block returned, the commit raised and nothing was persisted
C25_CommitRaised ==
    /\ session.pc = "closed"
    /\ session.wrote
    /\ session.block_exc = ""
    /\ session.exc = "IntegrityError"
    /\ session.commits = 0
    /\ session.store = {}

(***************************************************************************)
(* week8: the tag_ids of a note.                                           *)
(***************************************************************************)

\* the step serves create_note, or patch_note or update_note on a stored
\* note, with a list of tag ids
C29_Request(req) ==
    /\ req.op \in {"create_note", "patch_note", "update_note"}
    /\ req.op # "create_note" => req.id \in DOMAIN notes8
    /\ req.tag_ids.given

\* every listed id is the id of a stored tag
C29_AllExist(req) == Range(req.tag_ids.ids) \subseteq DOMAIN week8.tags

\* the note the request wrote has the listed tags
C29_Tagged(req) ==
    LET id == IF req.op = "create_note" THEN NextRowId(notes8) ELSE req.id
    IN  /\ id \in DOMAIN notes8'
        /\ notes8'[id].tags = Range(req.tag_ids.ids)

\* C29: create_note, update_note and patch_note given a tag_ids list
\* succeed whenever every listed id is the id of a stored tag, a repeated
\* id included, and answer 404 only when some listed id is the id of no
\* tag; the 404 leaves the notes and their tags as they were.
C29_TagIdsAccepted ==
    [][C29_Request(last'.req) =>
          /\ C29_AllExist(last'.req) =>
                 (last'.status \in {200, 201} /\ C29_Tagged(last'.req))
          /\ ~C29_AllExist(last'.req) => last'.status = 404
          /\ last'.status = 404 => notes8' = notes8]_vars

\* the same for lists that name no id twice, and every 404 leaves the
\* notes as they were
C29_DistinctIdsAccepted ==
    [][C29_Request(last'.req) =>
          /\ (C29_AllExist(last'.req)
                /\ Cardinality(Range(last'.req.tag_ids.ids)) = Len(last'.req.tag_ids.ids)) =>
                 (last'.status \in {200, 201} /\ C29_Tagged(last'.req))
          /\ ~C29_AllExist(last'.req) => last'.status = 404
          /\ last'.status = 404 => notes8' = notes8]_vars

\* a list naming the stored tag 1 twice was answered 404
C29_RepeatedIdRefused ==
    /\ last.req.op \in {"create_note", "patch_note", "update_note"}
    /\ last.req.tag_ids = TagIds(<<1, 1>>)
    /\ 1 \in DOMAIN week8.tags
    /\ last.status = 404

====
